---- MODULE Spec2Model ----
(***************************************************************************)
(* A model of the runtime core of @a13y/core:                              *)
(*   - the announcer (LiveRegionManager, announce, AnnouncementQueue) of   *)
(*     packages/core/src/runtime/announce/announcer.ts, with the host's    *)
(*     timers (setTimeout) as a clock and a list of pending timers;        *)
(*   - the roving tabindex navigator (RovingTabindexManager) of            *)
(*     packages/core/src/runtime/aria/aria-utils.ts, over a container      *)
(*     whose members are attached, detached, hidden and shown, and with    *)
(*     the keys pressed on the container (SpecKeys);                       *)
(*   - the focus trap (createFocusTrap) of runtime/focus/focus-trap, with  *)
(*     the document's focused element, its pending setTimeout(..., 0)      *)
(*     callbacks and its keydown and mousedown events;                     *)
(*   - the focus history stack (FocusStack) of runtime/focus/focus-manager;*)
(*   - the announcer's module functions (initAnnouncer, clearAnnouncements, *)
(*     destroyAnnouncer) in a browser (SpecLife) and outside one           *)
(*     (SpecHost), with assertBrowser of runtime/env/environment.ts.       *)
(* Each subsystem has its own specifications (SpecAnn, SpecQueue,          *)
(* SpecLife, SpecHost; SpecNav, SpecKeys; SpecTrap, SpecTrapEvents;        *)
(* SpecStack); the variables of the other subsystems stay at their         *)
(* initial values.                                                         *)
(***************************************************************************)
EXTENDS Integers, Sequences, FiniteSets, TLC

VARIABLES
    \* ---- host event loop
    now,            \* the clock, in milliseconds
    timers,         \* pending setTimeout callbacks, in registration order
    passes,         \* number of times the caller let time pass
    \* ---- LiveRegionManager (announcer.ts:42-169)
    isInitialized,  \* LiveRegionManager.isInitialized
    regions,        \* LiveRegionManager.regions: politeness -> region element
    regionText,     \* textContent of every region element ever created
    \* ---- AnnouncementQueue (announcer.ts:244-290)
    queue,          \* AnnouncementQueue.queue
    isProcessing,   \* AnnouncementQueue.isProcessing
    \* ---- history of the announcer
    calls,          \* every announce() call made, in call order
    log,            \* every write to a region's textContent, in order
    enqueued,       \* number of enqueue() calls made
    dropped,        \* entries removed from the queue by clear(), and when
    \* ---- the host the announcer runs in, and the announcer seen from outside
    host,           \* "browser", "document" (no navigator) or "server"
    attached,       \* the region elements in the document, each with its aria-live
    warnings,       \* number of devWarn(false, ...) calls made
    annLast,        \* the last announcer function called and its outcome
    lifeCalls,      \* number of initAnnouncer/clearAnnouncements/destroyAnnouncer calls
    \* ---- the document around a RovingTabindexManager's container
    elemKind,       \* each element's kind: "button" (natively focusable) or "div"
    rendered,       \* elements in the container's subtree that are displayed
    tabindex,       \* each element's tabindex attribute ("none" when absent)
    \* ---- RovingTabindexManager (aria-utils.ts:265-441)
    loop,           \* options.loop
    orientation,    \* options.orientation
    currentIndex,   \* RovingTabindexManager.currentIndex
    elements,       \* RovingTabindexManager.elements
    navIsActive,    \* RovingTabindexManager.isActive
    listening,      \* the keydown listener is installed on the container
    last,           \* the last operation called on the manager and its outcome
    \* ---- the document around a focus trap's container
    active,         \* document.activeElement
    containerTabindex,  \* the container's tabindex attribute ("none" when absent)
    \* ---- createFocusTrap (runtime/focus/focus-trap)
    trapOptions,    \* the options the trap was created with
    trapIsActive,   \* isActive
    previouslyFocusedElement,   \* previouslyFocusedElement (0 for null)
    focusableElements,  \* focusableElements
    keydownInstalled,   \* handleKeyDown is a keydown listener of the document
    mousedownInstalled, \* handleClickOutside is a mousedown listener of the document
    focusTimers,    \* the elements the pending setTimeout(..., 0) callbacks will focus
    trapLast,       \* the last operation called on the trap and its outcome
    \* ---- FocusStack (runtime/focus/focus-manager)
    stack,          \* FocusStack.stack, bottom first
    pushed,         \* number of distinct elements pushed so far
    repushes,       \* number of pushes of an element already in the stack
    stackLast,      \* the last operation called on the stack and its outcome
    \* ---- KeyboardShortcutManager (aria-utils.ts:536-628)
    shortcuts,      \* KeyboardShortcutManager.shortcuts: normalized key -> handler
    kbIsActive,     \* KeyboardShortcutManager.isActive
    kbLast,         \* the last operation called on the manager and its outcome
    \* ---- a component using useFocusTrap (use-focus-trap.ts:70-148)
    hookProps,      \* the props restoreFocus and autoFocus
    hookIsActive,   \* the prop isActive of the last render
    hookMounted,    \* the component is mounted: trapRef.current is the container
    hookCleanup,    \* the last effect run returned a cleanup function
    focusTrapRef,   \* focusTrapRef.current: a trap's number, 0 for null
    previousFocusRef,   \* previousFocusRef.current ("none" for null)
    hookImports,    \* import(...).then callbacks not yet run
    hookTimers,     \* the traps whose initial-focus setTimeout(..., 0) is pending
    hookTraps,      \* isActive of every trap the hook created, in creation order
    hookFocus,      \* document.activeElement: "opener", "first" or "body"
    hookLast        \* the last step of the component

annVars == <<now, timers, passes, isInitialized, regions, regionText,
             queue, isProcessing, calls, log, enqueued, dropped,
             host, attached, warnings, annLast, lifeCalls>>

navVars == <<elemKind, rendered, tabindex, loop, orientation, currentIndex, elements,
             navIsActive, listening, last>>

trapVars == <<active, containerTabindex, trapOptions, trapIsActive,
              previouslyFocusedElement, focusableElements, keydownInstalled,
              mousedownInstalled, focusTimers, trapLast>>

stackVars == <<stack, pushed, repushes, stackLast>>

kbVars == <<shortcuts, kbIsActive, kbLast>>

hookVars == <<hookProps, hookIsActive, hookMounted, hookCleanup, focusTrapRef,
              previousFocusRef, hookImports, hookTimers, hookTraps, hookFocus,
              hookLast>>

extVars == <<kbVars, hookVars>>

vars == <<annVars, navVars, trapVars, stackVars, extVars>>

(***************************************************************************)
(* Bounds of the model.                                                    *)
(***************************************************************************)
MaxCalls == 2       \* direct announce() calls made by the callers
MaxEnqueue == 3     \* enqueue() calls made by the callers
MaxElems == 3       \* elements the document has for the navigator's container
MaxPass == 1        \* times the callers let time pass between operations
MaxPending == 2     \* focus callbacks of a trap pending at one time
MaxMembers == 3     \* elements the document has for a focus trap's container
MaxHandles == 11    \* distinct elements pushed on a FocusStack
MaxRepush == 1      \* pushes of an element already in a FocusStack
MaxLifeCalls == 2   \* initAnnouncer, clearAnnouncements and destroyAnnouncer calls

(***************************************************************************)
(* Program constants.                                                      *)
(***************************************************************************)
SettleDelay == 10       \* LiveRegionManager.announce: setTimeout(..., 10)
DefaultDelay == 100     \* announce: delay = 100
QueueDelay == 1000      \* AnnouncementQueue.defaultDelay
StackMaxSize == 10      \* FocusStack.maxSize

(***************************************************************************)
(* The inputs the callers choose from.                                     *)
(***************************************************************************)
PassSteps == {5, 50}            \* milliseconds the callers let pass
Messages == {"a", "b"}
Politeness == {"polite", "assertive"}
Delays == {0, DefaultDelay}

Lanes == {"polite", "assertive"}

\* AnnounceOptions with the defaults of announce() applied
OptionSet == [politeness : Politeness, delay : Delays, clearPrevious : BOOLEAN]

\* the options given to enqueue(): clearPrevious is left at its default
QueueOptionSet == [politeness : Politeness, delay : Delays, clearPrevious : {TRUE}]

(***************************************************************************)
(* The announcer's operations are written as functions on a record S that  *)
(* holds the announcer's state, so that one handler can call another:      *)
(* S.timers, S.isInitialized, S.regions, S.regionText, S.log, S.queue,     *)
(* S.isProcessing, S.calls, S.attached, S.warnings; S.threw tells that the  *)
(* operation has thrown.                                                   *)
(***************************************************************************)
Cur ==
    [timers |-> timers, isInitialized |-> isInitialized, regions |-> regions,
     regionText |-> regionText, log |-> log, queue |-> queue,
     isProcessing |-> isProcessing, calls |-> calls,
     attached |-> attached, warnings |-> warnings, threw |-> FALSE]

Commit(S) ==
    /\ timers' = S.timers
    /\ isInitialized' = S.isInitialized
    /\ regions' = S.regions
    /\ regionText' = S.regionText
    /\ log' = S.log
    /\ queue' = S.queue
    /\ isProcessing' = S.isProcessing
    /\ calls' = S.calls
    /\ attached' = S.attached
    /\ warnings' = S.warnings

\* environment.ts isBrowser: window, document and navigator are defined
IsBrowser == host = "browser"

\* announcer.ts isBrowser: window and document are defined
HasDocument == host \in {"browser", "document"}

\* assertBrowser(operation) throws
Throw(S) == [S EXCEPT !.threw = TRUE]

\* devWarn(false, message): a console warning in development mode
DevWarn(S) == [S EXCEPT !.warnings = @ + 1]

\* setTimeout(callback, delay) called at time `at`
SetTimeout(S, kind, delay, at, call, region) ==
    [S EXCEPT !.timers = Append(@, [kind |-> kind, due |-> at + delay,
                                    delay |-> delay, call |-> call,
                                    region |-> region])]

\* region.textContent = text
WriteText(S, region, lane, text, call, at) ==
    [S EXCEPT !.regionText = [@ EXCEPT ![region] = text],
              !.log = Append(@, [region |-> region, lane |-> lane,
                                 text |-> text, call |-> call, at |-> at])]

\* LiveRegionManager.createRegion
CreateRegion(S, politeness) ==
    LET id == Len(S.regionText) + 1
    IN [S EXCEPT !.regionText = Append(@, ""),
                 !.attached = @ \cup {[id |-> id, lane |-> politeness]},
                 !.regions = [p \in (DOMAIN @) \cup {politeness} |->
                                 IF p = politeness THEN id ELSE @[p]]]

\* an init() without the guard on isInitialized
MgrInitUnguarded(S) ==
    IF ~IsBrowser
    THEN Throw(S)
    ELSE [CreateRegion(CreateRegion(S, "polite"), "assertive")
            EXCEPT !.isInitialized = TRUE]

\* LiveRegionManager.init
MgrInit(S) ==
    IF S.isInitialized
    THEN S
    ELSE IF ~IsBrowser
    THEN Throw(S)
    ELSE [CreateRegion(CreateRegion(S, "polite"), "assertive")
            EXCEPT !.isInitialized = TRUE]

\* LiveRegionManager.getRegion: the manager after the lazy init. The region
\* is GetRegion(S, p).regions[p]; both lanes exist once init has run.
GetRegion(S, politeness) == MgrInit(S)

\* LiveRegionManager.clear
MgrClear(S, politeness, call, at) ==
    IF politeness = "off"
    THEN S
    ELSE LET S1 == GetRegion(S, politeness)
         IN IF S1.threw THEN S1
            ELSE WriteText(S1, S1.regions[politeness], politeness, "", call, at)

\* LiveRegionManager.clearAll
MgrClearAll(S, at) ==
    LET RECURSIVE ClearFrom(_, _)
        ClearFrom(S1, lanes) ==
            IF lanes = <<>> THEN S1
            ELSE ClearFrom(IF Head(lanes) \in DOMAIN S1.regions
                           THEN WriteText(S1, S1.regions[Head(lanes)], Head(lanes),
                                          "", 0, at)
                           ELSE S1, Tail(lanes))
    IN ClearFrom(S, <<"polite", "assertive">>)

\* a destroy() that leaves isInitialized set
MgrDestroyKeepsFlag(S) ==
    [S EXCEPT !.attached = {r \in @ : \A p \in DOMAIN S.regions : S.regions[p] # r.id},
              !.regions = [p \in {} |-> 0]]

\* LiveRegionManager.destroy
MgrDestroy(S) ==
    [S EXCEPT !.attached = {r \in @ : \A p \in DOMAIN S.regions : S.regions[p] # r.id},
              !.regions = [p \in {} |-> 0],
              !.isInitialized = FALSE]

\* LiveRegionManager.announce: clear now, set the message 10 ms later
MgrAnnounce(S, politeness, call, at) ==
    IF politeness = "off"
    THEN DevWarn(S)
    ELSE LET S1 == GetRegion(S, politeness)
         IN IF S1.threw THEN S1
            ELSE LET region == S1.regions[politeness]
                     S2 == WriteText(S1, region, politeness, "", call, at)
                 IN SetTimeout(S2, "set", SettleDelay, at, call, region)

\* the timer callback of LiveRegionManager.announce
SetMessage(S, call, region, at) ==
    WriteText(S, region, S.calls[call].politeness, S.calls[call].message, call, at)

\* announce.doAnnounce
DoAnnounce(S, call, at) ==
    LET c == S.calls[call]
        S1 == IF c.clearPrevious THEN MgrClear(S, c.politeness, call, at) ELSE S
    IN IF S1.threw THEN S1 ELSE MgrAnnounce(S1, c.politeness, call, at)

\* message.trim().length === 0
IsBlank(message) == message \in {"", " "}

\* announce(message, options), called at time `at`; entry is the queue
\* entry it is called for (0 for a direct call)
Announce(S, message, options, entry, at) ==
    LET call == Len(S.calls) + 1
        S1 == [S EXCEPT !.calls = Append(@,
                  [message |-> message, politeness |-> options.politeness,
                   delay |-> options.delay,
                   clearPrevious |-> options.clearPrevious,
                   at |-> at, entry |-> entry])]
    IN IF ~IsBrowser THEN Throw(S)
       ELSE IF IsBlank(message) THEN DevWarn(S1)
       ELSE IF options.politeness = "off" THEN S1
       ELSE IF options.delay > 0
            THEN SetTimeout(S1, "doAnnounce", options.delay, at, call, 0)
            ELSE DoAnnounce(S1, call, at)

\* clearAnnouncements()
ClearAnnouncements(S, at) ==
    IF ~IsBrowser THEN Throw(S) ELSE MgrClearAll(S, at)

\* initAnnouncer()
InitAnnouncer(S) ==
    IF ~IsBrowser THEN Throw(S) ELSE MgrInit(S)

\* destroyAnnouncer()
DestroyAnnouncer(S) ==
    IF ~HasDocument THEN S ELSE MgrDestroy(S)

\* a drain loop that ends without releasing isProcessing
ProcessLoopKeepsFlag(S, at) ==
    IF Len(S.queue) > 0
    THEN LET item == Head(S.queue)
             S1 == [S EXCEPT !.queue = Tail(@)]
             S2 == Announce(S1, item.message, item.options, item.id, at)
         IN IF S2.threw
            THEN [S2 EXCEPT !.threw = FALSE]
            ELSE SetTimeout(S2, "drain", QueueDelay, at, 0, 0)
    ELSE S

\* AnnouncementQueue.process, the while loop from its test to the await:
\* entered from process() and again each time the awaited timer resolves.
\* An exception of announce() ends the async function: its promise is
\* rejected, nothing is thrown to the caller of enqueue() and the statements
\* after the loop do not run.
ProcessLoop(S, at) ==
    IF Len(S.queue) > 0
    THEN LET item == Head(S.queue)
             S1 == [S EXCEPT !.queue = Tail(@)]
             S2 == Announce(S1, item.message, item.options, item.id, at)
         IN IF S2.threw
            THEN [S2 EXCEPT !.threw = FALSE]
            ELSE SetTimeout(S2, "drain", QueueDelay, at, 0, 0)
    ELSE [S EXCEPT !.isProcessing = FALSE]

\* a process() without the reentrancy guard on isProcessing
ProcessNoGuard(S, at) ==
    IF Len(S.queue) = 0
    THEN S
    ELSE ProcessLoop([S EXCEPT !.isProcessing = TRUE], at)

\* AnnouncementQueue.process, up to its first await
Process(S, at) ==
    IF S.isProcessing \/ Len(S.queue) = 0
    THEN S
    ELSE ProcessLoop([S EXCEPT !.isProcessing = TRUE], at)

\* AnnouncementQueue.enqueue
Enqueue(S, message, options, id, at) ==
    Process([S EXCEPT !.queue = Append(@, [message |-> message,
                                           options |-> options, id |-> id])], at)

\* a clear() that removes the oldest entry only
QueueClearDropsHead(S) == [S EXCEPT !.queue = IF @ = <<>> THEN @ ELSE Tail(@)]

\* AnnouncementQueue.clear
QueueClear(S) == [S EXCEPT !.queue = <<>>]

(***************************************************************************)
(* The host's timers. A timer fires when the clock reaches its due time;   *)
(* of two timers due together, one registered earlier with the same delay  *)
(* fires first, and the order is otherwise the host's choice.              *)
(***************************************************************************)
MinDue == CHOOSE d \in {timers[i].due : i \in DOMAIN timers} :
              \A i \in DOMAIN timers : d <= timers[i].due

MayFire(i) ==
    /\ timers[i].due = MinDue
    /\ \A j \in 1..(i - 1) :
          ~(timers[j].due = MinDue /\ timers[j].delay <= timers[i].delay)

RemoveAt(s, i) == SubSeq(s, 1, i - 1) \o SubSeq(s, i + 1, Len(s))

\* the callback of timer t, run at time t.due
RunTimer(S, t) ==
    CASE t.kind = "doAnnounce" -> DoAnnounce(S, t.call, t.due)
      [] t.kind = "set" -> SetMessage(S, t.call, t.region, t.due)
      [] t.kind = "drain" -> ProcessLoop(S, t.due)

QueueIds(S) == {S.queue[i].id : i \in DOMAIN S.queue}

DirectCalls == {i \in DOMAIN calls : calls[i].entry = 0}

(***************************************************************************)
(* The elements of the navigator's document, and the navigator's variables *)
(* while no navigator is in use.                                           *)
(***************************************************************************)
Elems == 1..MaxElems

\* last, when the last step was none of the manager's operations
NoOp == [op |-> "none", arg |-> 0, threw |-> FALSE, i0 |-> 0,
         focus |-> 0, notified |-> <<>>, prevented |-> FALSE]

\* the elements of the document around a focus trap: the trap's container,
\* whose descendants are the elements of Elems; a button outside it; the
\* body, which document.activeElement names when no element has the focus
Container == MaxElems + 1
Opener == MaxElems + 2
Body == MaxElems + 3

\* trapLast, when the last step was none of the trap's operations
TrapNoOp == [op |-> "none", threw |-> FALSE, prevented |-> FALSE,
             escapes |-> 0, focusCalls |-> <<>>]

\* annLast, when none of the announcer's functions was called yet
AnnNoOp == [op |-> "none", threw |-> FALSE, prev |-> "none"]

\* stackLast, when no operation was called on the stack yet
StackNoOp == [op |-> "none", arg |-> 0, result |-> 0]

\* kbLast, when no operation was called on the shortcut manager yet
KbNoEvent == [ctrlKey |-> FALSE, altKey |-> FALSE, shiftKey |-> FALSE,
              metaKey |-> FALSE, key |-> <<>>]

KbNoOp == [op |-> "none", arg |-> <<>>, event |-> KbNoEvent,
           handler |-> "none", invoked |-> "none", threw |-> FALSE]

\* no KeyboardShortcutManager in use
KbIdle ==
    /\ shortcuts = [k \in {} |-> "none"]
    /\ kbIsActive = FALSE
    /\ kbLast = KbNoOp

\* no component using useFocusTrap
HookIdle ==
    /\ hookProps = [restoreFocus |-> TRUE, autoFocus |-> TRUE]
    /\ hookIsActive = FALSE
    /\ hookMounted = FALSE
    /\ hookCleanup = FALSE
    /\ focusTrapRef = 0
    /\ previousFocusRef = "none"
    /\ hookImports = 0
    /\ hookTimers = <<>>
    /\ hookTraps = <<>>
    /\ hookFocus = "body"
    /\ hookLast = "none"

ExtIdle == KbIdle /\ HookIdle

\* no FocusStack in use
StackIdle ==
    /\ stack = <<>>
    /\ pushed = 0
    /\ repushes = 0
    /\ stackLast = StackNoOp

\* no focus trap in use
TrapIdle ==
    /\ active = Body
    /\ containerTabindex = "none"
    /\ trapOptions = [initialFocus |-> 0, returnFocus |-> "default",
                      onEscape |-> "none", clickOutsideDeactivates |-> FALSE]
    /\ trapIsActive = FALSE
    /\ previouslyFocusedElement = 0
    /\ focusableElements = <<>>
    /\ keydownInstalled = FALSE
    /\ mousedownInstalled = FALSE
    /\ focusTimers = <<>>
    /\ trapLast = TrapNoOp

\* no RovingTabindexManager in use
NavIdle ==
    /\ elemKind = [e \in Elems |-> "button"]
    /\ rendered = {}
    /\ tabindex = [e \in Elems |-> "none"]
    /\ loop = TRUE
    /\ orientation = "horizontal"
    /\ currentIndex = 0
    /\ elements = <<>>
    /\ navIsActive = FALSE
    /\ listening = FALSE
    /\ last = NoOp

(***************************************************************************)
(* Actions of the announcer.                                               *)
(***************************************************************************)
\* the announcer module as loaded, no queue entry and no timer pending
AnnFresh ==
    /\ now = 0
    /\ timers = <<>>
    /\ passes = 0
    /\ isInitialized = FALSE
    /\ regions = [p \in {} |-> 0]
    /\ regionText = <<>>
    /\ queue = <<>>
    /\ isProcessing = FALSE
    /\ calls = <<>>
    /\ log = <<>>
    /\ enqueued = 0
    /\ dropped = {}
    /\ attached = {}
    /\ warnings = 0
    /\ annLast = AnnNoOp
    /\ lifeCalls = 0

\* the announcer module loaded in a browser
AnnStart == AnnFresh /\ host = "browser"

AnnInit == AnnStart /\ NavIdle /\ TrapIdle /\ StackIdle /\ ExtIdle

\* a caller calls announce(message, options)
AnnounceCall ==
    /\ Cardinality(DirectCalls) < MaxCalls
    /\ \E message \in Messages, options \in OptionSet :
          Commit(Announce(Cur, message, options, 0, now))
    /\ UNCHANGED <<now, passes, enqueued, dropped, host, annLast, lifeCalls, navVars, trapVars, stackVars, extVars>>

\* a caller calls queue.enqueue(message, options)
EnqueueCall ==
    /\ enqueued < MaxEnqueue
    /\ \E message \in Messages, options \in QueueOptionSet :
          Commit(Enqueue(Cur, message, options, enqueued + 1, now))
    /\ enqueued' = enqueued + 1
    /\ UNCHANGED <<now, passes, dropped, host, annLast, lifeCalls, navVars, trapVars, stackVars, extVars>>

\* a caller calls queue.clear()
QueueClearCall ==
    /\ Commit(QueueClear(Cur))
    /\ dropped' = dropped \cup {[id |-> id, at |-> now] : id \in QueueIds(Cur)}
    /\ UNCHANGED <<now, passes, enqueued, host, annLast, lifeCalls, navVars, trapVars, stackVars, extVars>>

\* the clock reaches the due time of a pending timer and its callback runs
FireTimer ==
    \E i \in DOMAIN timers :
        /\ MayFire(i)
        /\ now' = timers[i].due
        /\ Commit(RunTimer([Cur EXCEPT !.timers = RemoveAt(@, i)], timers[i]))
        /\ UNCHANGED <<passes, enqueued, dropped, host, annLast, lifeCalls, navVars, trapVars, stackVars, extVars>>

\* the callers let d milliseconds pass, no timer being due before that
PassTime ==
    /\ passes < MaxPass
    /\ \E d \in PassSteps :
          /\ IF timers = <<>> THEN TRUE ELSE now + d <= MinDue
          /\ now' = now + d
    /\ passes' = passes + 1
    /\ UNCHANGED <<timers, isInitialized, regions, regionText, queue,
                   isProcessing, calls, log, enqueued, dropped, host, attached,
                   warnings, annLast, lifeCalls, navVars, trapVars, stackVars, extVars>>

\* callers that call announce() directly
AnnNext == AnnounceCall \/ FireTimer \/ PassTime

SpecAnn == AnnInit /\ [][AnnNext]_vars

\* callers that announce through one AnnouncementQueue
QueueNext == EnqueueCall \/ QueueClearCall \/ FireTimer \/ PassTime

SpecQueue == AnnInit /\ [][QueueNext]_vars

\* a caller calls queue.enqueue(message, { delay })
DrainEnqueueCall ==
    /\ enqueued < MaxEnqueue
    /\ \E message \in Messages, delay \in Delays :
          Commit(Enqueue(Cur, message, [politeness |-> "polite", delay |-> delay,
                                       clearPrevious |-> TRUE], enqueued + 1, now))
    /\ enqueued' = enqueued + 1
    /\ UNCHANGED <<now, passes, dropped, host, annLast, lifeCalls, navVars, trapVars, stackVars, extVars>>

\* callers of one AnnouncementQueue on a host that runs every timer that is
\* due
DrainNext == DrainEnqueueCall \/ QueueClearCall \/ FireTimer

SpecDrain == AnnInit /\ [][DrainNext]_vars /\ WF_vars(FireTimer)

(***************************************************************************)
(* The announcer's module functions, called in any order, in a browser and *)
(* outside one.                                                            *)
(***************************************************************************)
\* hosts that are no browser: one with window and document but no navigator,
\* and one with none of them
NoBrowserHosts == {"document", "server"}
LifeMessages == {"a", "", " "}
LifeOptionSet == [politeness : {"polite", "assertive", "off"},
                  delay : Delays, clearPrevious : {TRUE}]

LifeInit == AnnStart /\ NavIdle /\ TrapIdle /\ StackIdle /\ ExtIdle

\* the announcer module loaded outside a browser
HostInit == AnnFresh /\ host \in NoBrowserHosts /\ NavIdle /\ TrapIdle /\ StackIdle /\ ExtIdle

\* what the caller of an announcer function sees of it
Outcome(S, op) ==
    /\ Commit(S)
    /\ annLast' = [op |-> op, threw |-> S.threw, prev |-> annLast.op]

LifeFrame == UNCHANGED <<now, passes, dropped, host, navVars, trapVars, stackVars, extVars>>

\* a caller calls announce(message, options)
LifeAnnounceCall ==
    /\ Cardinality(DirectCalls) < MaxCalls
    /\ \E message \in LifeMessages, options \in LifeOptionSet :
          Outcome(Announce(Cur, message, options, 0, now), "announce")
    /\ UNCHANGED <<enqueued, lifeCalls>>
    /\ LifeFrame

\* a caller calls initAnnouncer()
InitAnnouncerCall ==
    /\ lifeCalls < MaxLifeCalls
    /\ Outcome(InitAnnouncer(Cur), "initAnnouncer")
    /\ lifeCalls' = lifeCalls + 1
    /\ UNCHANGED enqueued
    /\ LifeFrame

\* a caller calls clearAnnouncements()
ClearAnnouncementsCall ==
    /\ lifeCalls < MaxLifeCalls
    /\ Outcome(ClearAnnouncements(Cur, now), "clearAnnouncements")
    /\ lifeCalls' = lifeCalls + 1
    /\ UNCHANGED enqueued
    /\ LifeFrame

\* a caller calls destroyAnnouncer()
DestroyAnnouncerCall ==
    /\ lifeCalls < MaxLifeCalls
    /\ Outcome(DestroyAnnouncer(Cur), "destroyAnnouncer")
    /\ lifeCalls' = lifeCalls + 1
    /\ UNCHANGED enqueued
    /\ LifeFrame

\* a caller calls queue.enqueue(message, options)
LifeEnqueueCall ==
    /\ enqueued < MaxEnqueue
    /\ \E message \in Messages, options \in QueueOptionSet :
          Outcome(Enqueue(Cur, message, options, enqueued + 1, now), "enqueue")
    /\ enqueued' = enqueued + 1
    /\ UNCHANGED lifeCalls
    /\ LifeFrame

\* the clock reaches the due time of a pending timer and its callback runs
LifeFireTimer ==
    \E i \in DOMAIN timers :
        /\ MayFire(i)
        /\ now' = timers[i].due
        /\ Outcome(RunTimer([Cur EXCEPT !.timers = RemoveAt(@, i)], timers[i]),
                   "timer")
        /\ UNCHANGED <<passes, enqueued, dropped, lifeCalls, host,
                       navVars, trapVars, stackVars, extVars>>

\* callers of the module functions in a browser
LifeNext ==
    \/ LifeAnnounceCall
    \/ InitAnnouncerCall
    \/ ClearAnnouncementsCall
    \/ DestroyAnnouncerCall
    \/ LifeFireTimer

SpecLife == LifeInit /\ [][LifeNext]_vars

\* callers of the module functions and of one AnnouncementQueue outside a
\* browser
HostNext ==
    \/ LifeAnnounceCall
    \/ InitAnnouncerCall
    \/ ClearAnnouncementsCall
    \/ DestroyAnnouncerCall
    \/ LifeEnqueueCall

SpecHost == HostInit /\ [][HostNext]_vars

(***************************************************************************)
(* The roving tabindex navigator. Its operations are functions on a record *)
(* N of the manager's fields and the part of the document it writes:       *)
(* N.currentIndex, N.elements, N.isActive, N.listening, N.tabindex, and    *)
(* the outcome of the call: N.threw (KeyboardNavigationError thrown),      *)
(* N.focus (the element the call moved the focus to, 0 if it moved none),  *)
(* N.notified (the onNavigate calls made), N.prevented (preventDefault was *)
(* called on the event handled).                                           *)
(***************************************************************************)
Kinds == {"button", "div"}

\* the containers explored: of buttons, of divs, of both in turn
KindPatterns ==
    {[e \in Elems |-> "button"], [e \in Elems |-> "div"],
     [e \in Elems |-> IF e % 2 = 1 THEN "button" ELSE "div"]}
Directions == {"forward", "backward", "first", "last"}
Orientations == {"horizontal", "vertical", "both"}

\* the keys pressed on the container: the six the handler has a case for, and
\* two it has none for
Keys == {"ArrowRight", "ArrowLeft", "ArrowDown", "ArrowUp", "Home", "End",
         "Enter", "Tab"}

NavCur ==
    [currentIndex |-> currentIndex, elements |-> elements,
     isActive |-> navIsActive, listening |-> listening,
     tabindex |-> tabindex,
     threw |-> FALSE, focus |-> 0, notified |-> <<>>, prevented |-> FALSE]

DocOrder == [i \in 1..MaxElems |-> i]

\* the selector of getFocusableElements: a natively focusable element, or
\* one with a tabindex attribute other than "-1"
MatchesSelector(N, e) ==
    \/ elemKind[e] = "button"
    \/ N.tabindex[e] \notin {"none", "-1"}

\* getFocusableElements(container): the displayed descendants that match,
\* in document order
GetFocusableElements(N) ==
    SelectSeq(DocOrder, LAMBDA e : e \in rendered /\ MatchesSelector(N, e))

\* RovingTabindexManager.updateElements
UpdateElements(N) == [N EXCEPT !.elements = GetFocusableElements(N)]

\* RovingTabindexManager.setTabindexes
SetTabindexes(N) ==
    [N EXCEPT !.tabindex = [e \in Elems |->
        IF \E i \in DOMAIN N.elements : N.elements[i] = e
        THEN IF \E i \in DOMAIN N.elements :
                    N.elements[i] = e /\ i - 1 = N.currentIndex
             THEN "0" ELSE "-1"
        ELSE @[e]]]

\* element.focus(): takes effect on an element that is displayed in the document
Focus(N, e) == IF e \in rendered THEN [N EXCEPT !.focus = e] ELSE N

\* a navigateTo that leaves the tabindex attributes alone
NavigateToNoRemark(N, index) ==
    IF index < 0 \/ index >= Len(N.elements)
    THEN [N EXCEPT !.threw = TRUE]
    ELSE LET N1 == [N EXCEPT !.currentIndex = index]
             e == N1.elements[index + 1]
         IN [Focus(N1, e) EXCEPT
                !.notified = Append(@, [element |-> e, index |-> index])]

\* a navigateTo that stores the index before it validates it
NavigateToStoresFirst(N, index) ==
    IF index < 0 \/ index >= Len(N.elements)
    THEN [N EXCEPT !.threw = TRUE, !.currentIndex = index]
    ELSE LET N1 == SetTabindexes([N EXCEPT !.currentIndex = index])
             e == N1.elements[index + 1]
         IN [Focus(N1, e) EXCEPT
                !.notified = Append(@, [element |-> e, index |-> index])]

\* RovingTabindexManager.navigateTo
NavigateTo(N, index) ==
    IF index < 0 \/ index >= Len(N.elements)
    THEN [N EXCEPT !.threw = TRUE]
    ELSE LET N1 == SetTabindexes([N EXCEPT !.currentIndex = index])
             e == N1.elements[index + 1]
         IN [Focus(N1, e) EXCEPT
                !.notified = Append(@, [element |-> e, index |-> index])]

\* a switch whose forward and backward cases wrap whatever options.loop is
NewIndexAlwaysWraps(N, direction) ==
    CASE direction = "forward" ->
            IF N.currentIndex + 1 >= Len(N.elements) THEN 0 ELSE N.currentIndex + 1
      [] direction = "backward" ->
            IF N.currentIndex - 1 < 0 THEN Len(N.elements) - 1 ELSE N.currentIndex - 1
      [] direction = "first" -> 0
      [] direction = "last" -> Len(N.elements) - 1

\* RovingTabindexManager.navigate, the switch that computes newIndex
NewIndex(N, direction) ==
    CASE direction = "forward" ->
            IF N.currentIndex + 1 >= Len(N.elements)
            THEN (IF loop THEN 0 ELSE Len(N.elements) - 1)
            ELSE N.currentIndex + 1
      [] direction = "backward" ->
            IF N.currentIndex - 1 < 0
            THEN (IF loop THEN Len(N.elements) - 1 ELSE 0)
            ELSE N.currentIndex - 1
      [] direction = "first" -> 0
      [] direction = "last" -> Len(N.elements) - 1

\* RovingTabindexManager.navigate
Navigate(N, direction) ==
    IF NewIndex(N, direction) # N.currentIndex
    THEN NavigateTo(N, NewIndex(N, direction))
    ELSE N

\* an init that installs the keydown listener before it looks for members
RovingInitListensFirst(N) ==
    IF N.isActive
    THEN N
    ELSE LET N1 == UpdateElements([N EXCEPT !.listening = TRUE])
         IN IF Len(N1.elements) = 0
            THEN [N1 EXCEPT !.threw = TRUE]
            ELSE [SetTabindexes(N1) EXCEPT !.isActive = TRUE]

\* RovingTabindexManager.init
RovingInit(N) ==
    IF N.isActive
    THEN N
    ELSE LET N1 == UpdateElements(N)
         IN IF Len(N1.elements) = 0
            THEN [N1 EXCEPT !.threw = TRUE]
            ELSE [SetTabindexes(N1) EXCEPT !.listening = TRUE, !.isActive = TRUE]

\* event.preventDefault() followed by this.navigate(direction)
PreventAndNavigate(N, direction) ==
    Navigate([N EXCEPT !.prevented = TRUE], direction)

\* a handler whose arrow cases do not look at options.orientation
HandleKeyDownAnyOrientation(N, key) ==
    CASE key = "ArrowRight" -> PreventAndNavigate(N, "forward")
      [] key = "ArrowLeft" -> PreventAndNavigate(N, "backward")
      [] key = "ArrowDown" -> PreventAndNavigate(N, "forward")
      [] key = "ArrowUp" -> PreventAndNavigate(N, "backward")
      [] key = "Home" -> PreventAndNavigate(N, "first")
      [] key = "End" -> PreventAndNavigate(N, "last")
      [] OTHER -> N

\* RovingTabindexManager.handleKeyDown
HandleKeyDown(N, key) ==
    CASE key = "ArrowRight" ->
            IF orientation = "horizontal" \/ orientation = "both"
            THEN PreventAndNavigate(N, "forward") ELSE N
      [] key = "ArrowLeft" ->
            IF orientation = "horizontal" \/ orientation = "both"
            THEN PreventAndNavigate(N, "backward") ELSE N
      [] key = "ArrowDown" ->
            IF orientation = "vertical" \/ orientation = "both"
            THEN PreventAndNavigate(N, "forward") ELSE N
      [] key = "ArrowUp" ->
            IF orientation = "vertical" \/ orientation = "both"
            THEN PreventAndNavigate(N, "backward") ELSE N
      [] key = "Home" -> PreventAndNavigate(N, "first")
      [] key = "End" -> PreventAndNavigate(N, "last")
      [] OTHER -> N

\* RovingTabindexManager.destroy
RovingDestroy(N) ==
    IF ~N.isActive
    THEN N
    ELSE [N EXCEPT !.listening = FALSE, !.isActive = FALSE]

\* the manager after a call `op(arg)` that took it from the current state to N
NavCommit(N, op, arg) ==
    /\ currentIndex' = N.currentIndex
    /\ elements' = N.elements
    /\ navIsActive' = N.isActive
    /\ listening' = N.listening
    /\ tabindex' = N.tabindex
    /\ last' = [op |-> op, arg |-> arg, threw |-> N.threw, i0 |-> currentIndex,
                focus |-> N.focus, notified |-> N.notified,
                prevented |-> N.prevented]

(***************************************************************************)
(* Actions of the navigator and of the document around it.                 *)
(***************************************************************************)
\* a manager just constructed over a container with no member yet; each
\* element the document will attach is a button or a div with tabindex="0"
NavInit ==
    /\ AnnStart
    /\ elemKind \in KindPatterns
    /\ rendered = {}
    /\ tabindex = [e \in Elems |-> IF elemKind[e] = "button" THEN "none" ELSE "0"]
    /\ loop \in BOOLEAN
    /\ orientation = "horizontal"
    /\ currentIndex = 0
    /\ elements = <<>>
    /\ navIsActive = FALSE
    /\ listening = FALSE
    /\ last = NoOp
    /\ TrapIdle
    /\ StackIdle /\ ExtIdle

\* what no operation of the manager changes
NavFrame == UNCHANGED <<elemKind, rendered, loop, orientation, annVars, trapVars, stackVars, extVars>>

InitCall ==
    /\ NavCommit(RovingInit(NavCur), "init", 0)
    /\ NavFrame

DestroyCall ==
    /\ NavCommit(RovingDestroy(NavCur), "destroy", 0)
    /\ NavFrame

UpdateElementsCall ==
    /\ NavCommit(UpdateElements(NavCur), "updateElements", 0)
    /\ NavFrame

\* navigateTo(index), for indexes in and out of range
NavigateToCall ==
    /\ \E index \in (0 - 1)..MaxElems :
          NavCommit(NavigateTo(NavCur, index), "navigateTo", index)
    /\ NavFrame

NavigateCall ==
    /\ \E direction \in Directions :
          NavCommit(Navigate(NavCur, direction), "navigate", direction)
    /\ NavFrame

\* the document attaches (or shows) an element in the container
Attach ==
    \E e \in Elems \ rendered :
        /\ rendered' = rendered \cup {e}
        /\ last' = NoOp
        /\ UNCHANGED <<elemKind, tabindex, loop, orientation, currentIndex, elements,
                       navIsActive, listening, annVars, trapVars, stackVars, extVars>>

\* the document removes (or hides) an element
Detach ==
    \E e \in rendered :
        /\ rendered' = rendered \ {e}
        /\ last' = NoOp
        /\ UNCHANGED <<elemKind, tabindex, loop, orientation, currentIndex, elements,
                       navIsActive, listening, annVars, trapVars, stackVars, extVars>>

NavNext ==
    \/ InitCall \/ DestroyCall \/ UpdateElementsCall
    \/ NavigateToCall \/ NavigateCall
    \/ Attach \/ Detach

SpecNav == NavInit /\ [][NavNext]_vars

(***************************************************************************)
(* The navigator driven from the keyboard: a manager constructed with any  *)
(* orientation, initialized, and keys pressed on its container.            *)
(***************************************************************************)
\* the container's elements are buttons, the manager's options are any
KeysInit ==
    /\ AnnStart
    /\ elemKind = [e \in Elems |-> "button"]
    /\ rendered = {}
    /\ tabindex = [e \in Elems |-> "none"]
    /\ loop \in BOOLEAN
    /\ orientation \in Orientations
    /\ currentIndex = 0
    /\ elements = <<>>
    /\ navIsActive = FALSE
    /\ listening = FALSE
    /\ last = NoOp
    /\ TrapIdle
    /\ StackIdle /\ ExtIdle

\* a keydown event reaches the container: the listener installed by init
\* runs handleKeyDown
KeyDownCall ==
    /\ listening
    /\ \E key \in Keys : NavCommit(HandleKeyDown(NavCur, key), "keydown", key)
    /\ NavFrame

KeysNext ==
    \/ InitCall \/ DestroyCall \/ KeyDownCall
    \/ Attach \/ Detach

SpecKeys == KeysInit /\ [][KeysNext]_vars

(***************************************************************************)
(* The focus trap (createFocusTrap). Its operations are functions on a     *)
(* record T of the closure's variables and the part of the document it     *)
(* writes: T.isActive, T.previouslyFocused, T.focusable, T.keydown and     *)
(* T.mousedown (the listeners installed), T.containerTabindex, T.active    *)
(* (document.activeElement), T.timers (the setTimeout(..., 0) callbacks    *)
(* pending, each the element it will focus), and the outcome of the call:  *)
(* T.threw (FocusManagementError thrown), T.prevented (preventDefault      *)
(* called on the event), T.escapes (options.onEscape calls made),          *)
(* T.focusCalls (the elements focus() was called on during the call).      *)
(***************************************************************************)
\* the options of the traps whose activation and deactivation are explored:
\* initialFocus absent or the last element of the container; returnFocus
\* absent, false or the button outside the container
TrapOptionSet ==
    [initialFocus : {0, MaxMembers},
     returnFocus : {"default", "false", "element"},
     onEscape : {"none"},
     clickOutsideDeactivates : {FALSE}]

\* the options of the traps whose event handlers are explored: onEscape
\* absent, one that does nothing or one that calls deactivate();
\* clickOutsideDeactivates absent or true
TrapEventOptionSet ==
    [initialFocus : {0},
     returnFocus : {"false"},
     onEscape : {"none", "noop", "deactivate"},
     clickOutsideDeactivates : BOOLEAN]

\* the elements the document has for the trap's container
TrapMembers == 1..MaxMembers

TrapKeys == {"Tab", "Escape", "Enter"}

TrapCur ==
    [isActive |-> trapIsActive, previouslyFocused |-> previouslyFocusedElement,
     focusable |-> focusableElements, keydown |-> keydownInstalled,
     mousedown |-> mousedownInstalled, containerTabindex |-> containerTabindex,
     active |-> active, timers |-> focusTimers,
     threw |-> FALSE, prevented |-> FALSE, escapes |-> 0, focusCalls |-> <<>>]

\* document.body.contains(e)
InDocument(e) == e \in rendered \cup {Container, Body}

\* container.contains(e)
ContainerContains(e) == e \in Elems \cup {Container}

\* e can take the focus: it is in the document and is a button, or the
\* container carrying a tabindex attribute
CanFocus(T, e) ==
    /\ InDocument(e)
    /\ e # Body
    /\ e = Container => T.containerTabindex # "none"

\* e.focus()
TrapFocus(T, e) ==
    [T EXCEPT !.focusCalls = Append(@, e),
              !.active = IF CanFocus(T, e) THEN e ELSE @]

\* updateFocusableElements
UpdateFocusableElements(T) ==
    [T EXCEPT !.focusable = GetFocusableElements([tabindex |-> tabindex])]

\* an activate that focuses its initial target before it returns
ActivateInstallFocusesNow(T) ==
    LET initialFocus == IF trapOptions.initialFocus # 0
                        THEN trapOptions.initialFocus ELSE T.focusable[1]
    IN [TrapFocus(T, initialFocus) EXCEPT
                 !.timers = Append(@, initialFocus),
                 !.keydown = TRUE,
                 !.mousedown = IF trapOptions.clickOutsideDeactivates THEN TRUE ELSE @,
                 !.isActive = TRUE]

\* activate, from the choice of the initial target to its end
ActivateInstall(T) ==
    LET initialFocus == IF trapOptions.initialFocus # 0
                        THEN trapOptions.initialFocus ELSE T.focusable[1]
    IN [T EXCEPT !.timers = Append(@, initialFocus),
                 !.keydown = TRUE,
                 !.mousedown = IF trapOptions.clickOutsideDeactivates THEN TRUE ELSE @,
                 !.isActive = TRUE]

\* an activate that records the focused element after its fallback has
\* focused the container
ActivateCapturesLate(T) ==
    IF T.isActive
    THEN T
    ELSE LET T1 == UpdateFocusableElements(T)
         IN IF Len(T1.focusable) = 0
            THEN IF T1.containerTabindex = "none"
                 THEN LET T2 == TrapFocus([T1 EXCEPT !.containerTabindex = "-1"], Container)
                      IN ActivateInstall([T2 EXCEPT !.focusable = <<Container>>,
                                                    !.previouslyFocused = T2.active])
                 ELSE [T1 EXCEPT !.threw = TRUE, !.previouslyFocused = T1.active]
            ELSE ActivateInstall([T1 EXCEPT !.previouslyFocused = T1.active])

\* an activate that installs its keydown listener before it looks for members
ActivateInstallsFirst(T) ==
    IF T.isActive
    THEN T
    ELSE LET T1 == UpdateFocusableElements([T EXCEPT !.previouslyFocused = T.active,
                                                     !.keydown = TRUE])
         IN IF Len(T1.focusable) = 0
            THEN IF T1.containerTabindex = "none"
                 THEN LET T2 == TrapFocus([T1 EXCEPT !.containerTabindex = "-1"], Container)
                      IN ActivateInstall([T2 EXCEPT !.focusable = <<Container>>])
                 ELSE [T1 EXCEPT !.threw = TRUE]
            ELSE ActivateInstall(T1)

\* an activate without the check that the trap is already active
ActivateUnguarded(T) ==
    LET T1 == UpdateFocusableElements([T EXCEPT !.previouslyFocused = T.active])
    IN IF Len(T1.focusable) = 0
       THEN IF T1.containerTabindex = "none"
            THEN LET T2 == TrapFocus([T1 EXCEPT !.containerTabindex = "-1"], Container)
                 IN ActivateInstall([T2 EXCEPT !.focusable = <<Container>>])
            ELSE [T1 EXCEPT !.threw = TRUE]
       ELSE ActivateInstall(T1)

\* activate
Activate(T) ==
    IF T.isActive
    THEN T
    ELSE LET T1 == UpdateFocusableElements([T EXCEPT !.previouslyFocused = T.active])
         IN IF Len(T1.focusable) = 0
            THEN IF T1.containerTabindex = "none"
                 THEN LET T2 == TrapFocus([T1 EXCEPT !.containerTabindex = "-1"], Container)
                      IN ActivateInstall([T2 EXCEPT !.focusable = <<Container>>])
                 ELSE [T1 EXCEPT !.threw = TRUE]
            ELSE ActivateInstall(T1)

\* a deactivate without the check that the trap is active
DeactivateUnguarded(T) ==
    LET returnTarget == IF trapOptions.returnFocus = "element"
                        THEN Opener ELSE T.previouslyFocused
        T1 == [T EXCEPT !.keydown = FALSE, !.mousedown = FALSE]
        T2 == IF /\ trapOptions.returnFocus # "false"
                 /\ returnTarget # 0
                 /\ InDocument(returnTarget)
              THEN [T1 EXCEPT !.timers = Append(@, returnTarget)]
              ELSE T1
    IN [T2 EXCEPT !.isActive = FALSE, !.previouslyFocused = 0]

\* a deactivate that leaves the keydown listener installed
DeactivateKeepsListener(T) ==
    IF ~T.isActive
    THEN T
    ELSE LET returnTarget == IF trapOptions.returnFocus = "element"
                             THEN Opener ELSE T.previouslyFocused
             T1 == [T EXCEPT !.mousedown = FALSE]
             T2 == IF /\ trapOptions.returnFocus # "false"
                      /\ returnTarget # 0
                      /\ InDocument(returnTarget)
                   THEN [T1 EXCEPT !.timers = Append(@, returnTarget)]
                   ELSE T1
         IN [T2 EXCEPT !.isActive = FALSE, !.previouslyFocused = 0]

\* deactivate
Deactivate(T) ==
    IF ~T.isActive
    THEN T
    ELSE LET returnTarget == IF trapOptions.returnFocus = "element"
                             THEN Opener ELSE T.previouslyFocused
             T1 == [T EXCEPT !.keydown = FALSE, !.mousedown = FALSE]
             T2 == IF /\ trapOptions.returnFocus # "false"
                      /\ returnTarget # 0
                      /\ InDocument(returnTarget)
                   THEN [T1 EXCEPT !.timers = Append(@, returnTarget)]
                   ELSE T1
         IN [T2 EXCEPT !.isActive = FALSE, !.previouslyFocused = 0]

\* a trap that deactivates itself after calling options.onEscape
OnEscapeThenDeactivate(T) == Deactivate([T EXCEPT !.escapes = @ + 1])

\* options.onEscape()
OnEscape(T) ==
    LET T1 == [T EXCEPT !.escapes = @ + 1]
    IN IF trapOptions.onEscape = "deactivate" THEN Deactivate(T1) ELSE T1

\* a handler that redirects from the boundary members only, not from outside
\* the container
TrapHandleKeyDownBoundaryOnly(T, key, shiftKey) ==
    IF key # "Tab"
    THEN IF key = "Escape" /\ trapOptions.onEscape # "none" THEN OnEscape(T) ELSE T
    ELSE IF Len(T.focusable) = 0
         THEN [T EXCEPT !.prevented = TRUE]
         ELSE LET firstElement == T.focusable[1]
                  lastElement == T.focusable[Len(T.focusable)]
              IN IF shiftKey
                 THEN IF T.active = firstElement
                      THEN TrapFocus([T EXCEPT !.prevented = TRUE], lastElement)
                      ELSE T
                 ELSE IF T.active = lastElement
                      THEN TrapFocus([T EXCEPT !.prevented = TRUE], firstElement)
                      ELSE T

\* a handler that redirects every Tab keydown, wherever the focus is
TrapHandleKeyDownEveryTab(T, key, shiftKey) ==
    IF key # "Tab"
    THEN IF key = "Escape" /\ trapOptions.onEscape # "none" THEN OnEscape(T) ELSE T
    ELSE IF Len(T.focusable) = 0
         THEN [T EXCEPT !.prevented = TRUE]
         ELSE LET firstElement == T.focusable[1]
                  lastElement == T.focusable[Len(T.focusable)]
              IN IF shiftKey
                 THEN TrapFocus([T EXCEPT !.prevented = TRUE], lastElement)
                 ELSE TrapFocus([T EXCEPT !.prevented = TRUE], firstElement)

\* handleKeyDown
TrapHandleKeyDown(T, key, shiftKey) ==
    IF key # "Tab"
    THEN IF key = "Escape" /\ trapOptions.onEscape # "none" THEN OnEscape(T) ELSE T
    ELSE IF Len(T.focusable) = 0
         THEN [T EXCEPT !.prevented = TRUE]
         ELSE LET firstElement == T.focusable[1]
                  lastElement == T.focusable[Len(T.focusable)]
              IN IF shiftKey
                 THEN IF T.active = firstElement \/ ~ContainerContains(T.active)
                      THEN TrapFocus([T EXCEPT !.prevented = TRUE], lastElement)
                      ELSE T
                 ELSE IF T.active = lastElement \/ ~ContainerContains(T.active)
                      THEN TrapFocus([T EXCEPT !.prevented = TRUE], firstElement)
                      ELSE T

\* handleClickOutside
HandleClickOutside(T, target) ==
    IF ~trapOptions.clickOutsideDeactivates
    THEN T
    ELSE IF ~ContainerContains(target) THEN Deactivate(T) ELSE T

\* the trap and the document after a call `op` that took them from the
\* current state to T; calls are explored while the callbacks they leave
\* pending are MaxPending at most
TrapCommit(T, op) ==
    /\ Len(T.timers) <= MaxPending
    /\ trapIsActive' = T.isActive
    /\ previouslyFocusedElement' = T.previouslyFocused
    /\ focusableElements' = T.focusable
    /\ keydownInstalled' = T.keydown
    /\ mousedownInstalled' = T.mousedown
    /\ containerTabindex' = T.containerTabindex
    /\ active' = T.active
    /\ focusTimers' = T.timers
    /\ trapLast' = [op |-> op, threw |-> T.threw, prevented |-> T.prevented,
                    escapes |-> T.escapes, focusCalls |-> T.focusCalls]

(***************************************************************************)
(* Actions of the focus trap and of the document around it.                *)
(***************************************************************************)
\* a trap just created over an empty container, with options of `optionSet`;
\* the button outside the container is in the document and nothing is focused
TrapStart(optionSet, containerTabindexes) ==
    /\ AnnStart
    /\ elemKind = [e \in Elems |-> "button"]
    /\ rendered = {Opener}
    /\ tabindex = [e \in Elems |-> "none"]
    /\ loop = TRUE
    /\ orientation = "horizontal"
    /\ currentIndex = 0
    /\ elements = <<>>
    /\ navIsActive = FALSE
    /\ listening = FALSE
    /\ last = NoOp
    /\ active = Body
    /\ containerTabindex \in containerTabindexes
    /\ trapOptions \in optionSet
    /\ trapIsActive = FALSE
    /\ previouslyFocusedElement = 0
    /\ focusableElements = <<>>
    /\ keydownInstalled = FALSE
    /\ mousedownInstalled = FALSE
    /\ focusTimers = <<>>
    /\ trapLast = TrapNoOp
    /\ StackIdle /\ ExtIdle

\* what no operation of the trap changes
TrapFrame ==
    UNCHANGED <<annVars, stackVars, extVars, elemKind, rendered, tabindex, loop,
                orientation, currentIndex, elements, navIsActive, listening,
                last, trapOptions>>

\* what no step of the document around the trap changes
TrapEnvFrame ==
    UNCHANGED <<annVars, stackVars, extVars, elemKind, tabindex, loop, orientation,
                currentIndex, elements, navIsActive, listening, last,
                containerTabindex,
                trapOptions, trapIsActive, previouslyFocusedElement,
                focusableElements, keydownInstalled, mousedownInstalled>>

ActivateCall ==
    /\ TrapCommit(Activate(TrapCur), "activate")
    /\ TrapFrame

DeactivateCall ==
    /\ TrapCommit(Deactivate(TrapCur), "deactivate")
    /\ TrapFrame

UpdateCall ==
    /\ TrapCommit(UpdateFocusableElements(TrapCur), "update")
    /\ TrapFrame

\* a keydown event in the document while handleKeyDown is installed
TrapKeyDown ==
    /\ keydownInstalled
    /\ \E key \in TrapKeys, shiftKey \in BOOLEAN :
          /\ (shiftKey => key = "Tab")
          /\ TrapCommit(TrapHandleKeyDown(TrapCur, key, shiftKey),
                        IF key = "Tab" /\ shiftKey THEN "Shift+Tab" ELSE key)
    /\ TrapFrame

\* a mousedown event in the document while handleClickOutside is installed
MouseDown ==
    /\ mousedownInstalled
    /\ \E target \in (rendered \cup {Container, Body}) :
          TrapCommit(HandleClickOutside(TrapCur, target), "mousedown")
    /\ TrapFrame

\* the host runs the oldest pending setTimeout(..., 0) callback
FireFocusTimer ==
    /\ focusTimers # <<>>
    /\ TrapCommit([TrapFocus(TrapCur, Head(focusTimers)) EXCEPT
                       !.timers = Tail(focusTimers)], "timer")
    /\ TrapFrame

\* the user, or another script, moves the focus to an element of the document
UserFocus ==
    /\ \E e \in rendered \cup {Container} :
          /\ CanFocus(TrapCur, e)
          /\ e # active
          /\ active' = e
    /\ trapLast' = TrapNoOp
    /\ UNCHANGED <<rendered, focusTimers>>
    /\ TrapEnvFrame

\* the document attaches an element: the button outside the container, or
\* one more descendant of the container after those it has
TrapAttach ==
    /\ \E e \in (TrapMembers \cup {Opener}) \ rendered :
          /\ e \in TrapMembers => e = Cardinality(rendered \cap TrapMembers) + 1
          /\ rendered' = rendered \cup {e}
    /\ trapLast' = TrapNoOp
    /\ UNCHANGED <<active, focusTimers>>
    /\ TrapEnvFrame

\* the document removes an element: the button outside the container, or
\* the container's last descendant; the focus, if it was on it, is on none
TrapDetach ==
    /\ \E e \in rendered :
          /\ e \in TrapMembers => e = Cardinality(rendered \cap TrapMembers)
          /\ rendered' = rendered \ {e}
          /\ active' = IF active = e THEN Body ELSE active
    /\ trapLast' = TrapNoOp
    /\ UNCHANGED focusTimers
    /\ TrapEnvFrame

\* a trap activated, updated and deactivated while the document changes
TrapInit == TrapStart(TrapOptionSet, {"none", "0"})

TrapNext ==
    \/ ActivateCall \/ DeactivateCall \/ UpdateCall
    \/ FireFocusTimer
    \/ UserFocus \/ TrapAttach \/ TrapDetach

SpecTrap == TrapInit /\ [][TrapNext]_vars

\* a trap that receives the document's keydown and mousedown events
TrapEventsInit == TrapStart(TrapEventOptionSet, {"none"})

TrapEventsNext ==
    \/ ActivateCall \/ DeactivateCall \/ UpdateCall
    \/ TrapKeyDown \/ MouseDown \/ FireFocusTimer
    \/ UserFocus \/ TrapAttach \/ TrapDetach

SpecTrapEvents == TrapEventsInit /\ [][TrapEventsNext]_vars

(***************************************************************************)
(* The focus history stack (FocusStack). Its operations are functions on   *)
(* the array this.stack, a sequence of elements with the bottom first; an  *)
(* element is a number from 1, and 0 stands for null.                      *)
(***************************************************************************)
Handles == 1..MaxHandles

\* this.stack.filter((el) => el !== element)
Without(s, element) == SelectSeq(s, LAMBDA el : el # element)

\* this.stack.includes(element)
StackHas(s, element) == \E i \in DOMAIN s : s[i] = element

\* a push that does not limit the stack's size
StackPushUnlimited(s, element) == Append(Without(s, element), element)

\* a push that does not remove the element from where it was
StackPushNoFilter(s, element) ==
    LET s1 == Append(s, element)
    IN IF Len(s1) > StackMaxSize THEN Tail(s1) ELSE s1

\* FocusStack.push
StackPush(s, element) ==
    LET s1 == Append(Without(s, element), element)
    IN IF Len(s1) > StackMaxSize THEN Tail(s1) ELSE s1

\* FocusStack.pop: the stack left
StackPop(s) == IF s = <<>> THEN s ELSE SubSeq(s, 1, Len(s) - 1)

\* FocusStack.peek, and the value FocusStack.pop returns
StackPeek(s) == IF s = <<>> THEN 0 ELSE s[Len(s)]

\* FocusStack.clear
StackClear(s) == <<>>

(***************************************************************************)
(* Actions of the focus history stack.                                     *)
(***************************************************************************)
StackInit ==
    /\ AnnStart
    /\ NavIdle
    /\ TrapIdle
    /\ StackIdle /\ ExtIdle

StackFrame == UNCHANGED <<annVars, navVars, trapVars, extVars>>

\* push of an element that was never pushed before
PushNewCall ==
    /\ pushed < MaxHandles
    /\ stack' = StackPush(stack, pushed + 1)
    /\ pushed' = pushed + 1
    /\ stackLast' = [op |-> "push", arg |-> pushed + 1, result |-> 0]
    /\ UNCHANGED repushes
    /\ StackFrame

\* push of an element that is in the stack: at its bottom, middle or top
PushPresentCall ==
    /\ repushes < MaxRepush
    /\ stack # <<>>
    /\ \E i \in {1, (Len(stack) + 1) \div 2, Len(stack)} :
          /\ stack' = StackPush(stack, stack[i])
          /\ stackLast' = [op |-> "push", arg |-> stack[i], result |-> 0]
    /\ repushes' = repushes + 1
    /\ UNCHANGED pushed
    /\ StackFrame

PopCall ==
    /\ stack' = StackPop(stack)
    /\ stackLast' = [op |-> "pop", arg |-> 0, result |-> StackPeek(stack)]
    /\ UNCHANGED <<pushed, repushes>>
    /\ StackFrame

PeekCall ==
    /\ stackLast' = [op |-> "peek", arg |-> 0, result |-> StackPeek(stack)]
    /\ UNCHANGED <<stack, pushed, repushes>>
    /\ StackFrame

ClearCall ==
    /\ stack' = StackClear(stack)
    /\ stackLast' = [op |-> "clear", arg |-> 0, result |-> 0]
    /\ UNCHANGED <<pushed, repushes>>
    /\ StackFrame

StackNext == PushNewCall \/ PushPresentCall \/ PopCall \/ PeekCall \/ ClearCall

SpecStack == StackInit /\ [][StackNext]_vars

(***************************************************************************)
(* The two other implementations of navigation by key: the handler made    *)
(* by createArrowKeyHandler and the useKeyboardNavigation hook. Each is a  *)
(* function of the number of items n, the current index i, the key, the    *)
(* orientation o and the loop option lp; its value is the index after the  *)
(* key and whether onNavigate was called.                                  *)
(***************************************************************************)
NavKeys == {"ArrowRight", "ArrowLeft", "ArrowDown", "ArrowUp", "Home", "End"}

\* the handler returned by createArrowKeyHandler, for a target at index i
ArrowKeyHandler(n, i, key, o, lp) ==
    LET horizontal == o \in {"horizontal", "both"}
        vertical == o \in {"vertical", "both"}
        shouldHandle ==
            \/ key \in {"ArrowRight", "ArrowLeft"} /\ horizontal
            \/ key \in {"ArrowDown", "ArrowUp"} /\ vertical
            \/ key \in {"Home", "End"}
        newIndex ==
            CASE key = "ArrowRight" /\ horizontal -> i + 1
              [] key = "ArrowLeft" /\ horizontal -> i - 1
              [] key = "ArrowDown" /\ vertical -> i + 1
              [] key = "ArrowUp" /\ vertical -> i - 1
              [] key = "Home" -> 0
              [] key = "End" -> n - 1
              [] OTHER -> i
        looped == IF newIndex < 0 THEN (IF lp THEN n - 1 ELSE 0)
                  ELSE IF newIndex >= n THEN (IF lp THEN 0 ELSE n - 1)
                  ELSE newIndex
    IN IF ~shouldHandle \/ looped = i
       THEN [index |-> i, navigated |-> FALSE]
       ELSE [index |-> looped, navigated |-> TRUE]

\* a hook whose navigate never wraps
HookNavigateClamps(n, i, direction, lp) ==
    LET nextIndex ==
            CASE direction = "forward" -> IF i + 1 >= n THEN n - 1 ELSE i + 1
              [] direction = "backward" -> IF i - 1 < 0 THEN 0 ELSE i - 1
              [] direction = "first" -> 0
              [] direction = "last" -> n - 1
    IN IF n = 0 \/ nextIndex = i
       THEN [index |-> i, navigated |-> FALSE]
       ELSE [index |-> nextIndex, navigated |-> TRUE]

\* useKeyboardNavigation: navigate
HookNavigate(n, i, direction, lp) ==
    LET nextIndex ==
            CASE direction = "forward" ->
                    IF i + 1 >= n THEN (IF lp THEN 0 ELSE n - 1) ELSE i + 1
              [] direction = "backward" ->
                    IF i - 1 < 0 THEN (IF lp THEN n - 1 ELSE 0) ELSE i - 1
              [] direction = "first" -> 0
              [] direction = "last" -> n - 1
    IN IF n = 0 \/ nextIndex = i
       THEN [index |-> i, navigated |-> FALSE]
       ELSE [index |-> nextIndex, navigated |-> TRUE]

\* useKeyboardNavigation: handleKeyDown
HookHandleKeyDown(n, i, key, o, lp) ==
    LET direction ==
            CASE key = "ArrowRight" ->
                    IF o \in {"horizontal", "both"} THEN "forward" ELSE "none"
              [] key = "ArrowLeft" ->
                    IF o \in {"horizontal", "both"} THEN "backward" ELSE "none"
              [] key = "ArrowDown" ->
                    IF o \in {"vertical", "both"} THEN "forward" ELSE "none"
              [] key = "ArrowUp" ->
                    IF o \in {"vertical", "both"} THEN "backward" ELSE "none"
              [] key = "Home" -> "first"
              [] key = "End" -> "last"
              [] OTHER -> "none"
    IN IF direction = "none"
       THEN [index |-> i, navigated |-> FALSE]
       ELSE HookNavigate(n, i, direction, lp)

(***************************************************************************)
(* KeyboardShortcutManager. A string is the sequence of its UTF-16 code    *)
(* units, which is what Array.prototype.sort compares and what toLowerCase *)
(* maps.                                                                   *)
(***************************************************************************)
MaxShortcuts == 2

Plus == 43
Space == 32

Ctrl == <<67, 116, 114, 108>>
CtrlLower == <<99, 116, 114, 108>>
AltLower == <<97, 108, 116>>
Shift == <<83, 104, 105, 102, 116>>
ShiftLower == <<115, 104, 105, 102, 116>>
MetaLower == <<109, 101, 116, 97>>
KeyK == <<75>>
KeyKLower == <<107>>

\* String.prototype.toLowerCase, on the letters A to Z
ToLowerCase(s) == [i \in 1..Len(s) |-> IF s[i] \in 65..90 THEN s[i] + 32 ELSE s[i]]

\* String.prototype.split('+')
RECURSIVE Split(_)
Split(s) ==
    IF \A i \in 1..Len(s) : s[i] # Plus
    THEN <<s>>
    ELSE LET p == CHOOSE i \in 1..Len(s) :
                      s[i] = Plus /\ \A j \in 1..(i - 1) : s[j] # Plus
         IN <<SubSeq(s, 1, p - 1)>> \o Split(SubSeq(s, p + 1, Len(s)))

\* String.prototype.trim, for the space
RECURSIVE Trim(_)
Trim(s) ==
    IF s # <<>> /\ Head(s) = Space THEN Trim(Tail(s))
    ELSE IF s # <<>> /\ s[Len(s)] = Space THEN Trim(SubSeq(s, 1, Len(s) - 1))
    ELSE s

\* the order of Array.prototype.sort without a comparator: by code units
RECURSIVE StrLess(_, _)
StrLess(a, b) ==
    IF a = <<>> THEN b # <<>>
    ELSE IF b = <<>> THEN FALSE
    ELSE IF Head(a) # Head(b) THEN Head(a) < Head(b)
    ELSE StrLess(Tail(a), Tail(b))

\* p put into the sorted list ps, after the parts not greater than it
RECURSIVE SortInsert(_, _)
SortInsert(p, ps) ==
    IF ps = <<>> THEN <<p>>
    ELSE IF StrLess(p, Head(ps)) THEN <<p>> \o ps
    ELSE <<Head(ps)>> \o SortInsert(p, Tail(ps))

\* Array.prototype.sort()
RECURSIVE SortParts(_)
SortParts(ps) ==
    IF ps = <<>> THEN <<>>
    ELSE SortInsert(ps[Len(ps)], SortParts(SubSeq(ps, 1, Len(ps) - 1)))

\* Array.prototype.join('+')
RECURSIVE Join(_)
Join(ps) ==
    IF ps = <<>> THEN <<>>
    ELSE IF Len(ps) = 1 THEN ps[1]
    ELSE ps[1] \o <<Plus>> \o Join(Tail(ps))

\* normalizeKey: split, trim, sort, join, and only then toLowerCase
NormalizeKey(key) ==
    LET parts == Split(key)
    IN ToLowerCase(Join(SortParts([i \in 1..Len(parts) |-> Trim(parts[i])])))

\* eventToKey
EventToKey(event) ==
    LET parts == (IF event.ctrlKey THEN <<CtrlLower>> ELSE <<>>)
                 \o (IF event.altKey THEN <<AltLower>> ELSE <<>>)
                 \o (IF event.shiftKey THEN <<ShiftLower>> ELSE <<>>)
                 \o (IF event.metaKey THEN <<MetaLower>> ELSE <<>>)
                 \o <<ToLowerCase(event.key)>>
    IN Join(SortParts(parts))

Handlers == {"h1", "h2"}

\* the manager as a record
KbCur == [shortcuts |-> shortcuts, isActive |-> kbIsActive, warned |-> FALSE,
          invoked |-> "none", threw |-> FALSE]

\* register
ShortcutRegister(K, key, handler) ==
    LET normalizedKey == NormalizeKey(key)
        K1 == IF normalizedKey \in DOMAIN K.shortcuts
              THEN [K EXCEPT !.warned = TRUE] ELSE K
    IN [K1 EXCEPT !.shortcuts =
            [k \in DOMAIN K.shortcuts \cup {normalizedKey} |->
                IF k = normalizedKey THEN handler ELSE K.shortcuts[k]]]

\* unregister
ShortcutUnregister(K, key) ==
    [K EXCEPT !.shortcuts =
        [k \in DOMAIN K.shortcuts \ {NormalizeKey(key)} |-> K.shortcuts[k]]]

\* activate
ShortcutActivate(K) ==
    IF K.isActive THEN K
    ELSE IF ~IsBrowser THEN [K EXCEPT !.threw = TRUE]
    ELSE [K EXCEPT !.isActive = TRUE]

\* deactivate
ShortcutDeactivate(K) ==
    IF ~K.isActive THEN K ELSE [K EXCEPT !.isActive = FALSE]

\* clear
ShortcutClear(K) == [K EXCEPT !.shortcuts = [k \in {} |-> "none"]]

\* handleKeyDown, the document's keydown listener while the manager is active
ShortcutHandleKeyDown(K, event) ==
    LET key == EventToKey(event)
    IN IF key \in DOMAIN K.shortcuts
       THEN [K EXCEPT !.invoked = K.shortcuts[key]]
       ELSE K

\* the spellings passed to register and unregister: up to three of the parts
\* Ctrl, ctrl, Shift, K and k in any order, and one written with spaces
KeyParts == {Ctrl, CtrlLower, Shift, KeyK, KeyKLower}

PartLists ==
    { ps \in UNION { [1..n -> KeyParts] : n \in 1..3 } :
        \A i, j \in 1..Len(ps) : i # j => ToLowerCase(ps[i]) # ToLowerCase(ps[j]) }

Spellings ==
    { Join(ps) : ps \in PartLists } \cup { Ctrl \o <<Space, Plus, Space>> \o KeyK }

\* the keydown events: Control and Shift up or down, and the key k
KeyEvents ==
    [ctrlKey : BOOLEAN, altKey : {FALSE}, shiftKey : BOOLEAN, metaKey : {FALSE},
     key : {KeyK, KeyKLower}]

KbCommit(K, op, arg, event, handler) ==
    /\ shortcuts' = K.shortcuts
    /\ kbIsActive' = K.isActive
    /\ kbLast' = [op |-> op, arg |-> arg, event |-> event, handler |-> handler,
                  invoked |-> K.invoked, threw |-> K.threw]

KbFrame == UNCHANGED <<annVars, navVars, trapVars, stackVars, hookVars>>

KbInit == AnnStart /\ NavIdle /\ TrapIdle /\ StackIdle /\ KbIdle /\ HookIdle

RegisterCall ==
    \E key \in Spellings, handler \in Handlers :
        /\ \/ Cardinality(DOMAIN shortcuts) < MaxShortcuts
           \/ NormalizeKey(key) \in DOMAIN shortcuts
        /\ KbCommit(ShortcutRegister(KbCur, key, handler), "register", key,
                    KbNoEvent, handler)
        /\ KbFrame

UnregisterCall ==
    \E key \in Spellings :
        /\ KbCommit(ShortcutUnregister(KbCur, key), "unregister", key,
                    KbNoEvent, "none")
        /\ KbFrame

ShortcutActivateCall ==
    /\ KbCommit(ShortcutActivate(KbCur), "activate", <<>>, KbNoEvent, "none")
    /\ KbFrame

ShortcutDeactivateCall ==
    /\ KbCommit(ShortcutDeactivate(KbCur), "deactivate", <<>>, KbNoEvent, "none")
    /\ KbFrame

ShortcutClearCall ==
    /\ KbCommit(ShortcutClear(KbCur), "clear", <<>>, KbNoEvent, "none")
    /\ KbFrame

\* a keydown event reaches the document
ShortcutKeyDown ==
    /\ kbIsActive
    /\ \E event \in KeyEvents :
        KbCommit(ShortcutHandleKeyDown(KbCur, event), "keydown", <<>>, event, "none")
    /\ KbFrame

KbNext ==
    \/ RegisterCall
    \/ UnregisterCall
    \/ ShortcutActivateCall
    \/ ShortcutDeactivateCall
    \/ ShortcutClearCall
    \/ ShortcutKeyDown

SpecShortcuts == KbInit /\ [][KbNext]_vars

(***************************************************************************)
(* useFocusTrap in a mounted component whose container holds a focusable   *)
(* element ("first"); "opener" is a button outside the container. Every    *)
(* effect run that finds isActive starts an import whose then-callback     *)
(* runs later; a trap's activate() leaves its initial focus in a timer.    *)
(***************************************************************************)
MaxEffects == 3

HookCur ==
    [focusTrapRef |-> focusTrapRef, previousFocusRef |-> previousFocusRef,
     imports |-> hookImports, timers |-> hookTimers, traps |-> hookTraps,
     focus |-> hookFocus, cleanup |-> hookCleanup]

\* element.focus(): the body takes no focus, and neither does the element of
\* the component once the component has left the document
HookFocusOn(H, el, mounted) ==
    IF el = "opener" \/ (el = "first" /\ mounted)
    THEN [H EXCEPT !.focus = el]
    ELSE H

\* the effect's body (use-focus-trap.ts:77-117), up to the pending import
HookEffect(H, isActive, mounted) ==
    IF ~isActive \/ ~mounted
    THEN [H EXCEPT !.cleanup = FALSE]
    ELSE [H EXCEPT !.previousFocusRef =
                        IF hookProps.restoreFocus THEN H.focus ELSE @,
                   !.imports = @ + 1,
                   !.cleanup = TRUE]

\* the cleanup function the effect returned (use-focus-trap.ts:120-142);
\* deactivate() of a trap made with returnFocus: false focuses nothing
HookRunCleanup(H, mounted) ==
    IF ~H.cleanup THEN H
    ELSE LET H1 == IF H.focusTrapRef # 0
                   THEN [H EXCEPT !.traps[H.focusTrapRef] = FALSE,
                                  !.focusTrapRef = 0]
                   ELSE H
         IN IF hookProps.restoreFocus /\ H1.previousFocusRef # "none"
            THEN HookFocusOn(H1, H1.previousFocusRef, mounted)
            ELSE H1

\* the then-callback of the import (use-focus-trap.ts:88-117): a new trap is
\* created and activated, and activate() defers its initial focus
HookImportThen(H, mounted) ==
    LET H0 == [H EXCEPT !.imports = @ - 1]
        trap == Len(H.traps) + 1
    IN IF ~mounted THEN H0
       ELSE [H0 EXCEPT !.traps = Append(@, TRUE),
                       !.timers = Append(@, trap),
                       !.focusTrapRef = trap]

HookCommit(H, op) ==
    /\ focusTrapRef' = H.focusTrapRef
    /\ previousFocusRef' = H.previousFocusRef
    /\ hookImports' = H.imports
    /\ hookTimers' = H.timers
    /\ hookTraps' = H.traps
    /\ hookFocus' = H.focus
    /\ hookCleanup' = H.cleanup
    /\ hookLast' = op

HookFrame == UNCHANGED <<annVars, navVars, trapVars, stackVars, kbVars, hookProps>>

\* the component is mounted, with isActive false or true, while the opener
\* or nothing has the focus
HookInit ==
    /\ AnnStart /\ NavIdle /\ TrapIdle /\ StackIdle /\ KbIdle
    /\ hookProps \in [restoreFocus : BOOLEAN, autoFocus : BOOLEAN]
    /\ hookIsActive = FALSE
    /\ hookMounted = TRUE
    /\ hookCleanup = FALSE
    /\ focusTrapRef = 0
    /\ previousFocusRef = "none"
    /\ hookImports = 0
    /\ hookTimers = <<>>
    /\ hookTraps = <<>>
    /\ hookFocus \in {"opener", "body"}
    /\ hookLast = "mount"

\* effect runs that start an import, so far
HookStarted == hookImports + Len(hookTraps)

\* a render with isActive changed: the last effect's cleanup, then the effect
HookSetIsActive ==
    /\ hookMounted
    /\ hookIsActive \/ HookStarted < MaxEffects
    /\ hookIsActive' = ~hookIsActive
    /\ hookMounted' = hookMounted
    /\ HookCommit(HookEffect(HookRunCleanup(HookCur, hookMounted), ~hookIsActive, hookMounted),
                  "isActive")
    /\ HookFrame

\* a render with onEscape changed and isActive as before: cleanup, then effect
HookDepsChange ==
    /\ hookMounted
    /\ ~hookIsActive \/ HookStarted < MaxEffects
    /\ UNCHANGED <<hookIsActive, hookMounted>>
    /\ HookCommit(HookEffect(HookRunCleanup(HookCur, hookMounted), hookIsActive, hookMounted),
                  "deps")
    /\ HookFrame

\* the import resolves and one then-callback runs
HookImportResolves ==
    /\ hookImports > 0
    /\ UNCHANGED <<hookIsActive, hookMounted>>
    /\ HookCommit(HookImportThen(HookCur, hookMounted), "import")
    /\ HookFrame

\* a trap's deferred initial focus runs: the first focusable element of the
\* container is focused, if the container is still in the document
HookTimerFires ==
    /\ hookTimers # <<>>
    /\ UNCHANGED <<hookIsActive, hookMounted>>
    /\ HookCommit([HookFocusOn(HookCur, "first", hookMounted)
                        EXCEPT !.timers = Tail(@)], "timer")
    /\ HookFrame

\* the component unmounts: its elements leave the document, trapRef.current
\* becomes null and the cleanup runs
HookUnmount ==
    /\ hookMounted
    /\ hookMounted' = FALSE
    /\ hookIsActive' = hookIsActive
    /\ LET H == [HookCur EXCEPT !.focus = IF @ = "first" THEN "body" ELSE @]
       IN HookCommit([HookRunCleanup(H, FALSE) EXCEPT !.cleanup = FALSE], "unmount")
    /\ HookFrame

HookNext ==
    \/ HookSetIsActive
    \/ HookDepsChange
    \/ HookImportResolves
    \/ HookTimerFires
    \/ HookUnmount

SpecHook == HookInit /\ [][HookNext]_vars

(***************************************************************************)
(* Definitions used to state the announcer's properties.                   *)
(***************************************************************************)
Min(a, b) == IF a <= b THEN a ELSE b
Max(a, b) == IF a >= b THEN a ELSE b

\* positions in the log where announce call `call` set its message
SetPos(call) == {i \in DOMAIN log : log[i].call = call /\ log[i].text # ""}

\* the text of region r just before the write at position i of the log
TextBefore(i) ==
    LET earlier == {j \in 1..(i - 1) : log[j].region = log[i].region}
    IN IF earlier = {} THEN ""
       ELSE log[CHOOSE j \in earlier : \A k \in earlier : k <= j].text

\* positions in the log where a queue entry's message was displayed
Deliveries == {i \in DOMAIN log : log[i].text # "" /\ calls[log[i].call].entry # 0}

EntryOf(i) == calls[log[i].call].entry

\* announce calls made by the queue's drain loop
Dispatches == {i \in DOMAIN calls : calls[i].entry # 0}

Dispatched == {calls[i].entry : i \in Dispatches}

DrainTimers == {i \in DOMAIN timers : timers[i].kind = "drain"}

DroppedIds == {d.id : d \in dropped}

\* C1 (as claimed): two consecutive announce calls with the same text on the
\* polite lane are two content mutations: between the write that sets the
\* first one's message and the write that sets the second one's, the lane's
\* text is written empty.
C1_EmptyBetweenIdenticalSets ==
    \A k \in 1..(Len(calls) - 1) :
        ( /\ calls[k].politeness = "polite"
          /\ calls[k + 1].politeness = "polite"
          /\ calls[k].message = calls[k + 1].message )
        => \A i \in SetPos(k), j \in SetPos(k + 1) :
              \E m \in (Min(i, j) + 1)..(Max(i, j) - 1) :
                  log[m].lane = "polite" /\ log[m].text = ""

\* C2 (as claimed): a lane's text is set to a message only when it is empty:
\* no message is written directly over a displayed message.
C2_SetOnlyWhenEmpty ==
    \A i \in DOMAIN log : log[i].text # "" => TextBefore(i) = ""

\* C3: the queue's messages are displayed in the order they were
\* enqueued, consecutive displays at least the inter-message delay apart.
C3_FifoSpacedDeliveries ==
    \A i, j \in Deliveries :
        (i < j /\ ~(\E m \in Deliveries : i < m /\ m < j))
        => /\ EntryOf(i) < EntryOf(j)
           /\ log[j].at - log[i].at >= QueueDelay

\* C4: one drain loop at most: at most one wake-up of the loop is pending,
\* the queue is processing exactly while one is, and no two entries are
\* passed to announce less than the inter-message delay apart.
C4_SingleDrainLoop ==
    /\ Cardinality(DrainTimers) <= 1
    /\ isProcessing <=> DrainTimers # {}
    /\ \A c, d \in Dispatches :
          c < d => calls[d].at - calls[c].at >= QueueDelay

\* C4 witness: an enqueue arrived while the loop was waiting, and its entry
\* is still queued behind the one wake-up pending.
C4_Witness ==
    /\ isProcessing
    /\ Len(queue) >= 1
    /\ Cardinality(DrainTimers) = 1
    /\ Dispatched # {}

\* C5: no entry removed by clear() is ever passed to announce; an entry that
\* was passed to announce is displayed or still has its timer pending; every
\* entry enqueued is queued, removed by clear() or passed to announce, and
\* entries queued have the drain loop's wake-up pending.
C5_ClearDropsOnlyPending ==
    /\ DroppedIds \cap Dispatched = {}
    /\ \A c \in Dispatches :
          \/ IsBlank(calls[c].message) \/ calls[c].politeness = "off"
          \/ SetPos(c) # {}
          \/ \E t \in DOMAIN timers : timers[t].call = c
    /\ (1..enqueued) = QueueIds(Cur) \cup DroppedIds \cup Dispatched
    /\ QueueIds(Cur) \cap Dispatched = {}
    /\ queue # <<>> => DrainTimers # {}

\* C5 witness: clear() removed an entry; an entry dispatched before that was
\* displayed after the clear, and an entry enqueued later was displayed.
C5_Witness ==
    \E d \in dropped : \E i, j \in Deliveries :
        /\ EntryOf(i) < d.id /\ log[i].at > d.at
        /\ EntryOf(j) > d.id

(***************************************************************************)
(* Definitions used to state the navigator's properties.                   *)
(***************************************************************************)
Members == {elements[i] : i \in DOMAIN elements}

IndexInRange(i) == 0 <= i /\ i < Len(elements)

\* C6 (as claimed): the index of an initialized manager lies within its
\* collection whenever the collection is not empty.
C6_IndexInRange ==
    (navIsActive /\ Len(elements) > 0) => IndexInRange(currentIndex)

\* C7 (as claimed): when a navigate or navigateTo call on an initialized
\* manager with a non-empty collection has returned without throwing, exactly
\* one member of the collection has tabindex "0", the member at currentIndex.
C7_OneActiveAfterNavigate ==
    ( /\ navIsActive /\ Len(elements) > 0
      /\ last.op \in {"navigate", "navigateTo"} /\ ~last.threw )
    => /\ IndexInRange(currentIndex)
       /\ {e \in Members : tabindex[e] = "0"} = {elements[currentIndex + 1]}

\* C8 (as claimed): once init has succeeded, the member at currentIndex has
\* tabindex "0" and every other member of the collection has tabindex "-1".
C8_TabindexProtocol ==
    navIsActive =>
       /\ IndexInRange(currentIndex)
       /\ \A i \in DOMAIN elements :
             tabindex[elements[i]] = IF i - 1 = currentIndex THEN "0" ELSE "-1"

\* C9 (as claimed): updateElements keeps currentIndex when it is still within
\* the recomputed collection, and otherwise sets it to the last valid index.
C9_UpdateElementsClamps ==
    (last.op = "updateElements" /\ Len(elements) > 0)
    => currentIndex = IF last.i0 < Len(elements) THEN last.i0 ELSE Len(elements) - 1

\* the index the claim gives for navigate(direction) from index i of n members
ExpectedIndex(direction, i, n, lp) ==
    CASE direction = "forward" -> IF i < n - 1 THEN i + 1 ELSE IF lp THEN 0 ELSE n - 1
      [] direction = "backward" -> IF i > 0 THEN i - 1 ELSE IF lp THEN n - 1 ELSE 0
      [] direction = "first" -> 0
      [] direction = "last" -> n - 1

\* C10: navigate(direction) from an index within a collection of n >= 1
\* members returns without throwing and leaves currentIndex at i + 1 / i - 1,
\* wrapped at the ends when loop is set and unchanged there when it is not, and
\* at 0 / n - 1 for first / last.
C10_NavigateIndex ==
    (last.op = "navigate" /\ Len(elements) >= 1 /\ IndexInRange(last.i0))
    => /\ ~last.threw
       /\ currentIndex = ExpectedIndex(last.arg, last.i0, Len(elements), loop)

\* C10 witness: navigate('forward') from the last of three members, loop
\* not set, has left the index where it was.
C10_Witness ==
    /\ last.op = "navigate" /\ last.arg = "forward"
    /\ Len(elements) = 3 /\ last.i0 = 2
    /\ ~loop
    /\ currentIndex = 2

\* C11: a navigateTo(index) call with index < 0 or index >= elements.length
\* throws and leaves the navigator as it was: currentIndex, the collection
\* and every element's tabindex are unchanged, the call moves the focus to no
\* element and makes no onNavigate call.
C11_NavigateToOutOfRange ==
    [][ ( /\ last'.op = "navigateTo"
          /\ (last'.arg < 0 \/ last'.arg >= Len(elements)) )
        => /\ last'.threw
           /\ currentIndex' = currentIndex
           /\ elements' = elements
           /\ tabindex' = tabindex
           /\ navIsActive' = navIsActive /\ listening' = listening
           /\ last'.focus = 0
           /\ last'.notified = <<>> ]_vars

\* C11 witness: navigateTo(elements.length) on an initialized manager with
\* two members or more, the second being the current one, has thrown.
C11_Witness ==
    /\ last.op = "navigateTo" /\ last.threw
    /\ navIsActive /\ Len(elements) >= 2
    /\ last.arg = Len(elements)
    /\ currentIndex = 1

\* the elements of the container that getFocusableElements would return
FocusableNow ==
    {e \in Elems \cap rendered :
        elemKind[e] = "button" \/ tabindex[e] \notin {"none", "-1"}}

\* C12: an init() call on an inactive manager whose container has no
\* focusable member throws and leaves the manager inactive, installs no
\* keydown listener and writes no tabindex; an init() call on an inactive
\* manager whose container has a focusable member succeeds, whatever calls
\* failed before it.
C12_InitOverEmptyContainer ==
    [][ (last'.op = "init" /\ ~navIsActive)
        => IF FocusableNow = {}
           THEN /\ last'.threw
                /\ ~navIsActive' /\ ~listening'
                /\ tabindex' = tabindex
                /\ currentIndex' = currentIndex
           ELSE /\ ~last'.threw
                /\ navIsActive' /\ listening' ]_vars

\* C12 witness: init() has thrown over a container with nothing displayed,
\* and the manager is inactive with no listener installed.
C12_Witness ==
    /\ last.op = "init" /\ last.threw
    /\ rendered = {}
    /\ ~navIsActive /\ ~listening

\* the direction the claim gives for a key under an orientation, "none" when
\* the key is to do nothing
KeyDirection(key, o) ==
    CASE key = "ArrowRight" /\ o \in {"horizontal", "both"} -> "forward"
      [] key = "ArrowLeft" /\ o \in {"horizontal", "both"} -> "backward"
      [] key = "ArrowDown" /\ o \in {"vertical", "both"} -> "forward"
      [] key = "ArrowUp" /\ o \in {"vertical", "both"} -> "backward"
      [] key = "Home" -> "first"
      [] key = "End" -> "last"
      [] OTHER -> "none"

\* C13: for every key and orientation, a keydown handled by the navigator
\* does what navigate(direction) does and prevents the event's default when
\* the key is ArrowRight/ArrowLeft (forward/backward) under 'horizontal' or
\* 'both', ArrowDown/ArrowUp (forward/backward) under 'vertical' or 'both',
\* Home (first) or End (last); for any other key and for an arrow of the
\* other orientation it changes nothing and does not prevent the default.
C13_KeyMapping ==
    [][ last'.op = "keydown"
        => LET d == KeyDirection(last'.arg, orientation)
               N == IF d = "none" THEN NavCur ELSE Navigate(NavCur, d)
           IN /\ last'.prevented = (d # "none")
              /\ currentIndex' = N.currentIndex
              /\ tabindex' = N.tabindex
              /\ elements' = N.elements
              /\ last'.focus = N.focus
              /\ last'.notified = N.notified
              /\ last'.threw = N.threw
              /\ d = "none" => (last'.focus = 0 /\ last'.notified = <<>>
                                 /\ currentIndex' = currentIndex) ]_vars

\* C13 witness: under 'vertical', ArrowDown on the first of two or more
\* members has moved to the second and prevented the default.
C13_Witness ==
    /\ last.op = "keydown" /\ last.arg = "ArrowDown"
    /\ orientation = "vertical"
    /\ Len(elements) >= 2
    /\ last.i0 = 0 /\ currentIndex = 1
    /\ last.prevented
    /\ last.focus = elements[2]

(***************************************************************************)
(* Definitions used to state the focus trap's properties.                  *)
(***************************************************************************)
\* C14: every activate() call on an inactive trap records as
\* previouslyFocused the element that had the focus when it was called,
\* whatever focus transfer the call makes itself: when its fallback focuses
\* the container, the element recorded is still the one focused before.
C14_CaptureBeforeTransfer ==
    [][ (trapLast'.op = "activate" /\ ~trapIsActive)
        => /\ previouslyFocusedElement' = active
           /\ (trapLast'.focusCalls # <<>>
                  => trapLast'.focusCalls = <<Container>> /\ active' = Container) ]_vars

\* C14 witness: activate() was called with the focus on the button outside
\* the container; its fallback has focused the container, and the element
\* recorded is the button.
C14_Witness ==
    /\ trapLast.op = "activate"
    /\ trapLast.focusCalls = <<Container>>
    /\ active = Container
    /\ previouslyFocusedElement = Opener
    /\ trapIsActive

\* the focus is where a Tab (forward) or Shift+Tab keydown is to be
\* redirected from: on the trap's last (first) member, or outside the container
AtBoundary(forward) ==
    \/ active = (IF forward THEN focusableElements[Len(focusableElements)]
                           ELSE focusableElements[1])
    \/ active \notin Elems \cup {Container}

\* the member a Tab (forward) or Shift+Tab keydown is to be redirected to
WrapTarget(forward) ==
    IF forward THEN focusableElements[1]
    ELSE focusableElements[Len(focusableElements)]

\* C15 (as claimed): while the trap is active with one member or more, a Tab
\* keydown with the focus on the last member or outside the container leaves
\* the focus on the first member, a Shift+Tab keydown with the focus on the
\* first member or outside leaves it on the last, within the keydown event
\* and with the event's default prevented.
C15_TabWraps ==
    [][ ( /\ trapLast'.op \in {"Tab", "Shift+Tab"}
          /\ trapIsActive /\ Len(focusableElements) >= 1
          /\ AtBoundary(trapLast'.op = "Tab") )
        => /\ active' = WrapTarget(trapLast'.op = "Tab")
           /\ trapLast'.prevented
           /\ focusTimers' = focusTimers ]_vars

\* C15 (amended): the same, when the member to receive the focus is still
\* attached to the document.
C15_TabWrapsToAttached ==
    [][ ( /\ trapLast'.op \in {"Tab", "Shift+Tab"}
          /\ trapIsActive /\ Len(focusableElements) >= 1
          /\ AtBoundary(trapLast'.op = "Tab")
          /\ WrapTarget(trapLast'.op = "Tab") \in rendered \cup {Container} )
        => /\ active' = WrapTarget(trapLast'.op = "Tab")
           /\ trapLast'.prevented
           /\ trapLast'.focusCalls = <<WrapTarget(trapLast'.op = "Tab")>>
           /\ focusTimers' = focusTimers
           /\ trapIsActive' /\ focusableElements' = focusableElements ]_vars

\* C15 witness: a Tab keydown on a trap of two members or more has been
\* redirected: the default was prevented and the focus is on the first member.
C15_Witness ==
    /\ trapLast.op = "Tab" /\ trapLast.prevented
    /\ trapIsActive /\ Len(focusableElements) >= 2
    /\ trapLast.focusCalls = <<focusableElements[1]>>
    /\ active = focusableElements[1]

\* C16: an Escape keydown while the trap is active calls options.onEscape
\* once when it is supplied (and makes no call when it is not), prevents no
\* default and moves no focus; unless onEscape itself calls deactivate(), the
\* trap stays active with its keydown listener installed and its focusable
\* set, recorded element and pending callbacks as they were.
C16_EscapeOnlyNotifies ==
    [][ (trapLast'.op = "Escape" /\ trapIsActive)
        => /\ trapLast'.escapes = (IF trapOptions.onEscape = "none" THEN 0 ELSE 1)
           /\ ~trapLast'.prevented
           /\ trapLast'.focusCalls = <<>>
           /\ active' = active
           /\ IF trapOptions.onEscape = "deactivate"
              THEN ~trapIsActive' /\ ~keydownInstalled'
              ELSE /\ trapIsActive' /\ keydownInstalled'
                   /\ mousedownInstalled' = mousedownInstalled
                   /\ focusableElements' = focusableElements
                   /\ previouslyFocusedElement' = previouslyFocusedElement
                   /\ focusTimers' = focusTimers ]_vars

\* C16 witness: an Escape keydown has called an onEscape that does not
\* deactivate, once, and the trap is active with its listener installed.
C16_Witness ==
    /\ trapLast.op = "Escape" /\ trapLast.escapes = 1
    /\ trapOptions.onEscape = "noop"
    /\ trapIsActive /\ keydownInstalled
    /\ Len(focusableElements) >= 1

\* C17: an activate() call on an active trap changes nothing: the element
\* recorded, the focusable set, the focus, the pending callbacks, the
\* listeners and the container's tabindex are as before, no focus() call is
\* made and nothing is thrown.
C17_ActivateWhenActive ==
    [][ (trapLast'.op = "activate" /\ trapIsActive)
        => /\ ~trapLast'.threw
           /\ trapLast'.focusCalls = <<>>
           /\ trapIsActive'
           /\ previouslyFocusedElement' = previouslyFocusedElement
           /\ focusableElements' = focusableElements
           /\ active' = active
           /\ focusTimers' = focusTimers
           /\ keydownInstalled' = keydownInstalled
           /\ mousedownInstalled' = mousedownInstalled
           /\ containerTabindex' = containerTabindex ]_vars

\* C17 witness: activate() was called on an active trap (no callback is
\* pending after it) whose container has changed since the first activation
\* and while the focus was on another element than the one recorded.
C17_Witness ==
    /\ trapLast.op = "activate"
    /\ trapIsActive /\ focusTimers = <<>>
    /\ focusableElements # GetFocusableElements([tabindex |-> tabindex])
    /\ previouslyFocusedElement = Opener
    /\ active \in TrapMembers

\* C18: an activate() call on an inactive trap whose container has no
\* focusable descendant: when the container carries no tabindex attribute,
\* the call gives it tabindex "-1", makes it the sole member of the focusable
\* set and activates the trap; otherwise the call throws, the trap stays
\* inactive and no listener is installed.
C18_ActivateOverEmptySet ==
    [][ (trapLast'.op = "activate" /\ ~trapIsActive /\ FocusableNow = {})
        => IF containerTabindex = "none"
           THEN /\ ~trapLast'.threw
                /\ containerTabindex' = "-1"
                /\ focusableElements' = <<Container>>
                /\ trapIsActive' /\ keydownInstalled'
           ELSE /\ trapLast'.threw
                /\ ~trapIsActive'
                /\ ~keydownInstalled' /\ ~mousedownInstalled'
                /\ containerTabindex' = containerTabindex
                /\ focusTimers' = focusTimers
                /\ trapLast'.focusCalls = <<>> /\ active' = active ]_vars

\* C18 witness: activate() has thrown over a container that carries
\* tabindex "0" and has no descendant; the trap is inactive, no listener is
\* installed and no callback is pending.
C18_Witness ==
    /\ trapLast.op = "activate" /\ trapLast.threw
    /\ containerTabindex = "0"
    /\ rendered \cap TrapMembers = {}
    /\ ~trapIsActive /\ ~keydownInstalled
    /\ focusTimers = <<>>

\* the element a successful activate() is to focus: options.initialFocus
\* when given, otherwise the first member of the set it has computed
InitialTarget ==
    IF trapOptions.initialFocus # 0 THEN trapOptions.initialFocus
    ELSE focusableElements'[1]

\* C19 (as claimed): a successful activate() makes no focus transfer itself:
\* it calls focus() on no element and the focus is where it was when the
\* call returns, with one callback left pending for options.initialFocus
\* when given, otherwise for the first member.
C19_InitialFocusDeferred ==
    [][ (trapLast'.op = "activate" /\ ~trapIsActive /\ ~trapLast'.threw)
        => /\ trapLast'.focusCalls = <<>>
           /\ active' = active
           /\ focusTimers' = Append(focusTimers, InitialTarget) ]_vars

\* C19 (amended): a successful activate() makes no focus transfer itself
\* other than its fallback's, to the container, when the container has no
\* focusable descendant, and leaves one callback pending for
\* options.initialFocus when given, otherwise for the first member; the
\* callback, run later, calls focus() on that element, which takes the focus
\* when it is then attached to the document.
C19_InitialFocusDeferredButFallback ==
    [][ /\ (trapLast'.op = "activate" /\ ~trapIsActive /\ ~trapLast'.threw)
           => /\ IF FocusableNow = {}
                 THEN trapLast'.focusCalls = <<Container>> /\ active' = Container
                 ELSE trapLast'.focusCalls = <<>> /\ active' = active
              /\ focusTimers' = Append(focusTimers, InitialTarget)
        /\ trapLast'.op = "timer"
           => /\ trapLast'.focusCalls = <<Head(focusTimers)>>
              /\ focusTimers' = Tail(focusTimers)
              /\ active' = IF Head(focusTimers) \in (rendered \cup {Container}) \ {Body}
                            THEN Head(focusTimers) ELSE active ]_vars

\* C19 witness: the callback left by activate() has moved the focus to
\* options.initialFocus, which is not the first member of the trap's set.
C19_Witness ==
    /\ trapLast.op = "timer"
    /\ trapIsActive
    /\ trapOptions.initialFocus # 0
    /\ trapLast.focusCalls = <<trapOptions.initialFocus>>
    /\ active = trapOptions.initialFocus
    /\ focusableElements[1] # trapOptions.initialFocus
    /\ previouslyFocusedElement = Opener

\* the element deactivate() is to return the focus to: options.returnFocus
\* when it is an element, otherwise the element recorded by activate()
ReturnTarget ==
    IF trapOptions.returnFocus = "element" THEN Opener
    ELSE previouslyFocusedElement

\* C20: a deactivate() call on an active trap whose options.returnFocus is
\* not false does not throw and leaves the trap inactive with its listeners
\* removed; when options.returnFocus (if it is an element, otherwise the
\* element recorded by activate()) is attached to the document, the call
\* leaves one callback pending for it, and makes and schedules no focus
\* transfer when it is not; the callback, run later, calls focus() on that
\* element, which has the focus afterwards when it is still attached, the
\* document's body included.
C20_DeactivateRestoresFocus ==
    [][ /\ ( /\ trapLast'.op = "deactivate" /\ trapIsActive
             /\ trapOptions.returnFocus # "false" )
           => /\ ~trapLast'.threw
              /\ ~trapIsActive' /\ ~keydownInstalled' /\ ~mousedownInstalled'
              /\ trapLast'.focusCalls = <<>> /\ active' = active
              /\ focusTimers' = IF ReturnTarget \in rendered \cup {Container, Body}
                                 THEN Append(focusTimers, ReturnTarget)
                                 ELSE focusTimers
        /\ ( /\ trapLast'.op = "timer"
             /\ Head(focusTimers) \in rendered \cup {Container, Body} )
           => /\ trapLast'.focusCalls = <<Head(focusTimers)>>
              /\ active' = Head(focusTimers) ]_vars

\* C21: a deactivate() call on a trap that is not active (a second
\* deactivate() with no activate() in between) does not throw, makes no
\* focus() call, leaves no further callback pending and removes nothing: the
\* trap and the document are as the call found them.
C21_DeactivateIdempotent ==
    [][ (trapLast'.op = "deactivate" /\ ~trapIsActive)
        => /\ ~trapLast'.threw
           /\ trapLast'.focusCalls = <<>>
           /\ active' = active
           /\ focusTimers' = focusTimers
           /\ ~trapIsActive'
           /\ previouslyFocusedElement' = previouslyFocusedElement
           /\ focusableElements' = focusableElements
           /\ keydownInstalled' = keydownInstalled
           /\ mousedownInstalled' = mousedownInstalled
           /\ containerTabindex' = containerTabindex ]_vars

\* C21 witness: a trap whose return target is the attached button outside
\* was activated through its fallback and deactivated, the callback of that
\* deactivation has run, and deactivate() was called again: no callback is
\* pending.
C21_Witness ==
    /\ trapLast.op = "deactivate"
    /\ ~trapIsActive /\ ~keydownInstalled
    /\ containerTabindex = "-1"
    /\ trapOptions.returnFocus = "element"
    /\ Opener \in rendered
    /\ focusTimers = <<>>

\* the keydown events of the trap's handler
TrapKeyOps == {"Tab", "Shift+Tab", "Escape", "Enter"}

\* C22: once the trap has been deactivated, directly or by a click outside,
\* neither of its listeners is installed, and until activate() is called
\* again no step runs its keydown handler: no default is prevented, no
\* focus() call is made for a key and onEscape is not called.
C22_NoInterceptionAfterDeactivate ==
    [][ /\ ~trapIsActive' => (~keydownInstalled' /\ ~mousedownInstalled')
        /\ (~trapIsActive /\ trapLast'.op # "activate")
           => /\ trapLast'.op \notin TrapKeyOps
              /\ ~trapLast'.prevented
              /\ trapLast'.escapes = 0
              /\ ~trapIsActive' ]_vars

\* C22 witness: a click outside the container has deactivated a trap created
\* with clickOutsideDeactivates: the trap is inactive and its keydown
\* listener is removed.
C22_Witness ==
    /\ trapLast.op = "mousedown"
    /\ trapOptions.clickOutsideDeactivates
    /\ ~trapIsActive
    /\ ~keydownInstalled /\ ~mousedownInstalled
    /\ Len(focusableElements) >= 1

(***************************************************************************)
(* Definitions used to state the focus history stack's properties.         *)
(***************************************************************************)
\* C23: after every push, pop, peek and clear the stack holds maxSize (10)
\* entries at most; a push of an element that is not in a full stack removes
\* the bottom entry and no other, keeps the others in their order and puts
\* the element on top.
C23_StackBounded ==
    [][ /\ Len(stack') <= StackMaxSize
        /\ ( /\ stackLast'.op = "push"
             /\ Len(stack) = StackMaxSize
             /\ \A i \in DOMAIN stack : stack[i] # stackLast'.arg )
           => stack' = Append(Tail(stack), stackLast'.arg) ]_vars

\* C23 witness: the eleventh distinct element was pushed on the stack of the
\* first ten: the first is gone and the eleventh is on top.
C23_Witness ==
    /\ stackLast.op = "push"
    /\ stackLast.arg = StackMaxSize + 1
    /\ stack = [i \in 1..StackMaxSize |-> i + 1]

\* the entries of s other than h, in their order
Others(s, h) == SelectSeq(s, LAMBDA x : x # h)

\* C24: the stack never holds an element twice; a push of an element that is
\* in the stack leaves its length unchanged, puts the element on top and
\* keeps all the other entries, in their order.
C24_StackNoDuplicates ==
    [][ /\ \A i, j \in DOMAIN stack' : stack'[i] = stack'[j] => i = j
        /\ ( /\ stackLast'.op = "push"
             /\ \E i \in DOMAIN stack : stack[i] = stackLast'.arg )
           => /\ Len(stack') = Len(stack)
              /\ stack'[Len(stack')] = stackLast'.arg
              /\ Others(stack', stackLast'.arg) = Others(stack, stackLast'.arg) ]_vars

\* C24 witness: an element that was below the top of a full stack has been
\* pushed again: it is on top, above an element pushed after it, and the
\* stack is still full.
C24_Witness ==
    /\ stackLast.op = "push"
    /\ repushes >= 1
    /\ Len(stack) = StackMaxSize
    /\ stack[Len(stack)] = stackLast.arg
    /\ stack[Len(stack)] < stack[Len(stack) - 1]

(***************************************************************************)
(* Definitions used to state the properties of the announcer's module      *)
(* functions.                                                              *)
(***************************************************************************)
\* the announce() call of the step, when the step is a call of announce()
\* made in a browser
LastCall == calls'[Len(calls')]

DroppedCall ==
    /\ annLast'.op = "announce"
    /\ Len(calls') = Len(calls) + 1
    /\ IsBlank(LastCall.message) \/ LastCall.politeness = "off"

\* C25: a call of announce() with an empty or blank message, or with
\* politeness "off", throws nothing, creates no region, changes no region's
\* text, schedules no timer, and warns once.
C25_DroppedAnnounceWarns ==
    [][ DroppedCall =>
          /\ ~annLast'.threw
          /\ attached' = attached
          /\ regions' = regions
          /\ regionText' = regionText
          /\ isInitialized' = isInitialized
          /\ timers' = timers
          /\ warnings' = warnings + 1 ]_vars

\* the region elements in the document with aria-live p, after the step
LanesOf(p) == {r \in attached' : r.lane = p}

\* C26: whatever the callers call and whichever timers fire, the document
\* holds at most one region element for "polite" and one for "assertive" and
\* none for any other value; initAnnouncer() called while the manager is
\* initialized creates no element and changes no region.
C26_OneLanePerPoliteness ==
    [][ /\ \A p \in Lanes : Cardinality(LanesOf(p)) <= 1
        /\ \A r \in attached' : r.lane \in Lanes
        /\ (annLast'.op = "initAnnouncer" /\ isInitialized)
           => /\ attached' = attached
              /\ regions' = regions
              /\ regionText' = regionText
              /\ ~annLast'.threw ]_vars

\* C26 witness: initAnnouncer() was called twice in a row and the two
\* regions of the first call are the only ones ever created.
C26_Witness ==
    /\ annLast.op = "initAnnouncer"
    /\ annLast.prev = "initAnnouncer"
    /\ isInitialized
    /\ Len(regionText) = Cardinality(Lanes)
    /\ \A p \in Lanes : \E r \in attached : r.lane = p

\* C27: destroyAnnouncer() throws nothing, initialized or not; after it no
\* region element is in the document, the manager's map is empty and the
\* manager is uninitialized; a second destroyAnnouncer() right after one
\* changes nothing.
C27_DestroyResets ==
    [][ annLast'.op = "destroyAnnouncer" =>
          /\ ~annLast'.threw
          /\ attached' = {}
          /\ DOMAIN regions' = {}
          /\ ~isInitialized'
          /\ annLast.op = "destroyAnnouncer" =>
                UNCHANGED <<attached, regions, isInitialized, regionText,
                            timers, queue, isProcessing, log, warnings>> ]_vars

\* C27 witness: regions were created, and destroyAnnouncer() has been called
\* twice in a row.
C27_Witness ==
    /\ annLast.op = "destroyAnnouncer"
    /\ annLast.prev = "destroyAnnouncer"
    /\ regionText # <<>>
    /\ attached = {}
    /\ ~isInitialized

\* C28: outside a browser, a call of announce(), initAnnouncer(),
\* clearAnnouncements() or queue.enqueue() throws to its caller and leaves
\* the regions, the timers and the queue as they were.
C28_FailsFastOutsideBrowser ==
    [][ ( /\ ~IsBrowser
          /\ annLast'.op \in {"announce", "initAnnouncer", "clearAnnouncements",
                              "enqueue"} )
        => /\ annLast'.threw
           /\ UNCHANGED <<timers, isInitialized, regions, regionText, attached,
                          queue, isProcessing>> ]_vars

\* C29: while the trap is active, a Tab keydown with the focus inside the
\* container and not on the last member, a Shift+Tab keydown with the focus
\* inside and not on the first member, and a keydown of a key that is
\* neither Tab nor Escape, are left alone: the default is not prevented, no
\* element is focused, onEscape is not called and the trap's state and its
\* pending callbacks are as before.
C29_OtherKeysPassThrough ==
    [][ ( /\ trapIsActive
          /\ \/ /\ trapLast'.op \in {"Tab", "Shift+Tab"}
                /\ Len(focusableElements) >= 1
                /\ ~AtBoundary(trapLast'.op = "Tab")
             \/ trapLast'.op \in TrapKeyOps \ {"Tab", "Shift+Tab", "Escape"} )
        => /\ ~trapLast'.prevented
           /\ trapLast'.focusCalls = <<>>
           /\ trapLast'.escapes = 0
           /\ UNCHANGED <<active, trapIsActive, focusableElements,
                          previouslyFocusedElement, keydownInstalled,
                          mousedownInstalled, focusTimers, containerTabindex,
                          tabindex>> ]_vars

\* C29 witness: a Tab keydown with the focus on the first of two members or
\* more has passed: the default was not prevented and the focus is where it
\* was.
C29_Witness ==
    /\ trapLast.op = "Tab" /\ ~trapLast.prevented
    /\ trapLast.focusCalls = <<>>
    /\ trapIsActive /\ Len(focusableElements) >= 2
    /\ active = focusableElements[1]

\* the step is a navigateTo(index) call with the index in range
InRangeNavigateTo ==
    /\ last'.op = "navigateTo"
    /\ last'.arg >= 0 /\ last'.arg < Len(elements)

\* the step is a navigate(direction) call whose computed index is the
\* current index
NavigateInPlace ==
    /\ last'.op = "navigate"
    /\ NewIndex(NavCur, last'.arg) = currentIndex

\* what C30 says of a navigateTo(index) call but for the focus: the index is
\* stored, the member at it has tabindex "0" and every other member "-1",
\* and onNavigate is called once with the member and the index
NavigateToMarks ==
    /\ ~last'.threw
    /\ currentIndex' = last'.arg
    /\ elements' = elements
    /\ \A i \in DOMAIN elements :
          tabindex'[elements[i]] = (IF i - 1 = last'.arg THEN "0" ELSE "-1")
    /\ last'.notified = <<[element |-> elements[last'.arg + 1], index |-> last'.arg]>>

\* what C30 says of a navigate(direction) call that stays in place
NothingDone ==
    /\ ~last'.threw
    /\ last'.focus = 0
    /\ last'.notified = <<>>
    /\ tabindex' = tabindex
    /\ currentIndex' = currentIndex
    /\ elements' = elements

\* C30 (as claimed): a navigateTo(index) call with 0 <= index <
\* elements.length stores the index, marks the member at it tabindex "0" and
\* every other member "-1", leaves the focus on that member and calls
\* onNavigate once with the member and the index; a navigate(direction) call
\* whose computed index is the current index moves no focus, writes no
\* tabindex and calls no onNavigate.
C30_NavigateToMoves ==
    [][ /\ InRangeNavigateTo =>
              /\ NavigateToMarks
              /\ last'.focus = elements[last'.arg + 1]
        /\ NavigateInPlace => NothingDone ]_vars

\* C30 (amended): the same, the focus being on the member after the call
\* when the member is still displayed in the document and not moved
\* otherwise.
C30_NavigateToMovesToDisplayed ==
    [][ /\ InRangeNavigateTo =>
              /\ NavigateToMarks
              /\ last'.focus = (IF elements[last'.arg + 1] \in rendered
                                THEN elements[last'.arg + 1] ELSE 0)
        /\ NavigateInPlace => NothingDone ]_vars

\* C30 witness: navigateTo(1) on a manager whose current index was 0 has
\* left the focus on the second of two members or more, which has tabindex
\* "0" while the first has "-1".
C30_Witness ==
    /\ last.op = "navigateTo" /\ ~last.threw
    /\ last.arg = 1 /\ last.i0 = 0
    /\ Len(elements) >= 2
    /\ currentIndex = 1
    /\ last.focus = elements[2]
    /\ tabindex[elements[2]] = "0" /\ tabindex[elements[1]] = "-1"

(***************************************************************************)
(* Definitions used to state what the announcer does in the end.           *)
(***************************************************************************)
\* C31: on a host that runs its timers, a queue that holds an entry or is
\* processing reaches a state where it is empty and no longer processing
\* and every entry enqueued so far was passed to announce or removed by
\* clear(), whenever the entries were enqueued.
C31_EveryEntryDispatched ==
    (queue # <<>> \/ isProcessing)
        ~> ( /\ queue = <<>> /\ ~isProcessing
             /\ (1..enqueued) = Dispatched \cup DroppedIds )

\* C31 witness: two entries enqueued one after the other were passed to
\* announce a whole inter-message delay apart, and the loop has ended with
\* the queue empty.
C31_Witness ==
    /\ ~isProcessing /\ queue = <<>> /\ DrainTimers = {}
    /\ \E c, d \in Dispatches :
          /\ calls[d].entry = calls[c].entry + 1
          /\ calls[d].at = calls[c].at + QueueDelay
    /\ Cardinality(Dispatched) >= 2

\* C32: when the announce() call of the drain loop throws (here: its
\* browser check fails, the queue being idle when the entry is enqueued),
\* the queue is not left processing, and no entry is left queued with no
\* wake-up of the loop pending.
C32_ThrowReleasesQueue ==
    [][ (annLast'.op = "enqueue" /\ ~IsBrowser)
        => /\ ~isProcessing'
           /\ queue' # <<>> => DrainTimers # {} ]_vars

(***************************************************************************)
(* Definitions used to state the properties of a trap used again.          *)
(***************************************************************************)
\* C33: an activate() call on an inactive trap does not throw when the
\* container has a focusable descendant, nor when it has none and was made
\* focusable (tabindex "-1") by the fallback of an earlier activate().
C33_TrapCanBeCycled ==
    [][ ( /\ trapLast'.op = "activate" /\ ~trapIsActive
          /\ \/ Len(UpdateFocusableElements(TrapCur).focusable) > 0
             \/ containerTabindex = "-1" )
        => /\ ~trapLast'.threw
           /\ trapIsActive' ]_vars

\* C34: a deactivate() call made while the callback of activate() is still
\* pending, with restoration enabled and its target attached and outside the
\* container (the document's body included), leaves the target's callback
\* pending behind the one of activate() and moves no focus itself; when the
\* callback of activate() has run on the deactivated trap and the target's
\* callback runs next as the last one pending, the focus is on the target
\* afterwards and not on the container or one of its members.
C34_RestoreAfterInitialFocus ==
    [][ /\ ( /\ trapLast'.op = "deactivate" /\ trapIsActive
             /\ focusTimers # <<>>
             /\ trapOptions.returnFocus # "false"
             /\ ReturnTarget \in (rendered \ Elems) \cup {Body} )
           => /\ focusTimers' = Append(focusTimers, ReturnTarget)
              /\ active' = active
              /\ trapLast'.focusCalls = <<>>
        /\ ( /\ trapLast'.op = "timer" /\ trapLast.op = "timer"
             /\ ~trapIsActive
             /\ trapLast.focusCalls # <<>>
             /\ trapLast.focusCalls[1] \in Elems \cup {Container}
             /\ Len(focusTimers) = 1
             /\ Head(focusTimers) \in (rendered \ Elems) \cup {Body} )
           => /\ active' = Head(focusTimers)
              /\ active' \notin Elems \cup {Container} ]_vars

\* C35: a timer that fires right after a destroyAnnouncer() call, no
\* initAnnouncer() or announce() call having been made since, creates no
\* region element and writes no text: none is in the document after it.
C35_NoLaneAfterDestroy ==
    [][ (annLast'.op = "timer" /\ annLast.op = "destroyAnnouncer" /\ attached = {})
        => /\ attached' = {}
           /\ ~isInitialized' ]_vars

\* the region elements in the document have no text
LanesEmpty == \A r \in attached : regionText[r.id] = ""

\* C36: a timer that fires right after a clearAnnouncements() call, no
\* announce() call having been made since, leaves every region in the
\* document empty.
C36_ClearedLanesStayEmpty ==
    [][ (annLast'.op = "timer" /\ annLast.op = "clearAnnouncements")
        => LanesEmpty' ]_vars

(***************************************************************************)
(* Definitions used to state the properties of navigation by direction.    *)
(***************************************************************************)
\* C37: a navigate(direction) call on an initialized manager whose
\* collection has a member does not throw, whatever navigate, navigateTo and
\* updateElements calls were made before.
C37_NavigateNeverThrows ==
    [][ (last'.op = "navigate" /\ navIsActive /\ Len(elements) >= 1)
        => ~last'.threw ]_vars

\* C38: for a key of the six navigation keys pressed on an initialized
\* manager whose current index is in range, the index the manager has after
\* the key and whether it called onNavigate are what the handler of
\* createArrowKeyHandler and the useKeyboardNavigation hook compute for the
\* same number of items, index, key, orientation and loop value.
C38_ImplementationsAgree ==
    [][ ( /\ last'.op = "keydown" /\ last'.arg \in NavKeys
          /\ navIsActive /\ IndexInRange(currentIndex) )
        => LET m == [index |-> currentIndex', navigated |-> last'.notified # <<>>]
               n == Len(elements)
           IN /\ ~last'.threw
              /\ ArrowKeyHandler(n, currentIndex, last'.arg, orientation, loop) = m
              /\ HookHandleKeyDown(n, currentIndex, last'.arg, orientation, loop) = m ]_vars

\* C38 witness: without loop, under 'both', End on the first of three
\* members has moved the manager to the last one.
C38_Witness ==
    /\ last.op = "keydown" /\ last.arg = "End"
    /\ orientation = "both" /\ ~loop
    /\ Len(elements) >= 3
    /\ last.i0 = 0
    /\ currentIndex = Len(elements) - 1
    /\ last.notified # <<>>

\* the parts of a spelling, trimmed and in lower case
PartsOf(key) ==
    LET parts == Split(key)
    IN { ToLowerCase(Trim(parts[i])) : i \in 1..Len(parts) }

\* the keydown event the spelling is for: the modifiers it names are down,
\* no other is, and the key is its remaining part in either case
IsEventFor(key, event) ==
    PartsOf(key) = (IF event.ctrlKey THEN {CtrlLower} ELSE {})
                   \cup (IF event.altKey THEN {AltLower} ELSE {})
                   \cup (IF event.shiftKey THEN {ShiftLower} ELSE {})
                   \cup (IF event.metaKey THEN {MetaLower} ELSE {})
                   \cup {ToLowerCase(event.key)}

\* C39: when a shortcut was registered under any spelling and the next
\* thing to happen is the keydown it is for, on an active manager, the
\* handler just registered is invoked.
C39_AnySpellingIsFound ==
    [][ ( /\ kbLast'.op = "keydown" /\ kbLast.op = "register" /\ kbIsActive
          /\ IsEventFor(kbLast.arg, kbLast'.event) )
        => kbLast'.invoked = kbLast.handler ]_vars

\* C40: whenever isActive is false and no import callback and no deferred
\* focus is pending, no trap the hook created is active.
C40_NoTrapWhenInactive ==
    (~hookIsActive /\ hookImports = 0 /\ hookTimers = <<>>)
        => \A t \in 1..Len(hookTraps) : ~hookTraps[t]

====
